---- MODULE Spec2Model ----
(***************************************************************************)
(* Model of the sora2 orchestrator: the worker supervisor                  *)
(* (WorkerRunner.runWorker), the profile selector                          *)
(* (AccountSelector.selectAvailableProfile), the task record store         *)
(* (TaskStore), the scheduler loop (Orchestrator), the task source client  *)
(* (TaskClient) and the worker's profile store (MongoProfileStore).        *)
(*                                                                         *)
(* The specifications share the variables:                                 *)
(*   SpecWorker / FairWorker  one runWorker invocation, event by event     *)
(*   SpecSel                  concurrent selectAvailableProfile calls      *)
(*   SpecStore                the task record store's operations           *)
(*   Spec                     the scheduler loop with its workers          *)
(*   SpecSeq                  the sequential processTask loop              *)
(*   SpecDist                 runWorker as built in dist                   *)
(*   SpecShutdown             the scheduler loop with interrupt signals    *)
(*   SpecOrchSel              selectAvailableProfile of src/orchestrator   *)
(*   SpecClient               the TaskClient operations, response by       *)
(*                            response                                     *)
(*   SpecProfiles             concurrent ensureProfile and updateCredit    *)
(*   SpecOldProfiles          ensureProfile as in part_021                 *)
(*   SpecStats                concurrent incrementDailyStats calls         *)
(*   SpecMutators             the profile mutators of MongoProfileStore    *)
(*   SpecOldMutators          the profile mutators as in part_021          *)
(*   SpecMap                  the task parameter mapping functions         *)
(*   FairSpec                 the scheduler loop with workers that resolve *)
(***************************************************************************)
EXTENDS Integers, Sequences, FiniteSets, TLC

VARIABLES
    \* ---- one runWorker invocation (WorkerRunner.runWorker) ----
    proc,        \* the child process: "running" | "failed" (not spawned) | "exited"
    timer,       \* timeoutId's timer: "armed" | "cleared" | "fired"
    killed,      \* workerProcess.kill('SIGKILL') has been called
    promise,     \* the returned promise: "pending" | "resolved" | "rejected"
    result,      \* the value the promise resolved to, or NoResult
    stdout,      \* captured stdout, a sequence of lines
    stderr,      \* captured stderr, a sequence of lines
    errored,     \* the 'error' event has been delivered
    firstEvent,  \* history: which of "error" | "exit" | "timeout" came first
    exitEvent,   \* history: <<code, signal>> of the 'exit' event, <<>> before it
    \* ---- the profile store and the calls of selectAvailableProfile ----
    profiles,    \* the `profiles` collection: name -> document
    clock,       \* the wall clock (new Date()), in ticks
    selPc,       \* per call: "idle" | "stamp" (between findOne and updateOne)
    selFound,    \* per call: the document findOne returned
    selExcl,     \* per call: excludeProfileNames
    selRet,      \* history: what the caller's last finished call returned
    selSaw,      \* history: the profiles already returned when the call began
    selCount,    \* history: per profile, how many calls have returned it
    \* ---- the task record store (TaskStore) ----
    tasksCollection,  \* the `tasks` collection: a sequence of documents
    lastOp,      \* history: the store operation of the latest step
    \* ---- the scheduler (Orchestrator) ----
    activeWorkers,    \* Map<taskId, ActiveWorker>: task id -> invocation, 0 = no entry
    inv,         \* the runWorker invocations started so far
    tickPc,      \* where the main loop's tryClaimAndStartTask stands
    tickProfile, \* `profile` of the tick in progress
    tickTask,    \* `task` of the tick in progress
    claimCalls,  \* history: tasks handed out by claimTask so far
    dailyStats,  \* the `daily_stats` collection: today's document, once it exists
    sourceLog,   \* history: per task, what the task source has been told
    \* ---- shutdown (Orchestrator.shutdown, the SIGINT/SIGTERM handlers) ----
    isShuttingDown,   \* Orchestrator.isShuttingDown
    shutPc,      \* where the shutdown() call that does the work stands
    shutAwaits,  \* the invocations whose promises that call passed to allSettled
    connected,   \* the MongoClients that are open
    exited,      \* process.exit has been called
    signals,     \* history: interrupt signals delivered so far
    \* ---- the task source client (TaskClient) ----
    clientCall,  \* history: the latest TaskClient call, its response and outcome
    \* ---- the worker's profile store (MongoProfileStore) ----
    profileDocs, \* the `profiles` collection as ensureProfile sees it: name -> document
    proxies,     \* the `proxies` collection: proxy -> document
    ensureCalls, \* per caller: the ensureProfile call in progress and its outcome
    \* ---- daily statistics (TaskStore.incrementDailyStats) ----
    statsColl,   \* the `daily_stats` collection: a sequence of documents
    statsCalls,  \* per caller: the incrementDailyStats call in progress
    statsDone,   \* history: calls begun; per date, the increments of the calls that returned
    \* ---- the task parameter mapping (index.ts) ----
    mapCall      \* history: the latest timing and dimension mapped, and the results

workerVars == <<proc, timer, killed, promise, result, stdout, stderr, errored, firstEvent,
                exitEvent>>
storeVars  == <<profiles, clock>>
selVars    == <<selPc, selFound, selExcl, selRet, selSaw, selCount>>
taskVars   == <<tasksCollection, lastOp>>
orchVars   == <<activeWorkers, inv, tickPc, tickProfile, tickTask, claimCalls,
                dailyStats, sourceLog>>

shutVars   == <<isShuttingDown, shutPc, shutAwaits, connected, exited, signals>>
clientVars == <<clientCall>>
pstoreVars == <<profileDocs, proxies, ensureCalls>>
statsVars  == <<statsColl, statsCalls, statsDone>>
mapVars    == <<mapCall>>
moreVars   == <<clientVars, pstoreVars, statsVars, mapVars>>

vars == <<workerVars, storeVars, selVars, taskVars, orchVars, shutVars, moreVars>>

notWorkerVars == <<storeVars, selVars, taskVars, orchVars, shutVars, moreVars>>
notSelVars    == <<workerVars, taskVars, orchVars, shutVars, moreVars>>
notTaskVars   == <<workerVars, profiles, selVars, orchVars, shutVars, moreVars>>

----------------------------------------------------------------------------
(* Values shared by the components *)

Absent == "<absent>"

NoResult == [success |-> FALSE, publicUrl |-> Absent, error |-> "<pending>"]

\* String.prototype.includes
Includes(s, sub) ==
    \E i \in 1..(Len(s) - Len(sub) + 1) : SubSeq(s, i, i + Len(sub) - 1) = sub

----------------------------------------------------------------------------
(* WorkerRunner.runWorker *)

\* Bound: lines captured per stream before the process ends.
MaxLines == 2

TASK_TIMEOUT_MINUTES == 25

\* Lines the executor may print.
LineDiag    == "starting browser"
LineOk1     == "{\"success\":true,\"publicUrl\":\"https://x/1\"}"
LineOk2     == "{\"success\":true,\"publicUrl\":\"https://x/2\"}"
LineNoUrl   == "{\"success\":true}"
LinePolicy  == "{\"success\":false,\"error\":\"policy violation\"}"
LineFalse   == "{\"success\":false}"
LineErrOnly == "{\"error\":\"boom\"}"
LineLog     == "{\"level\":30}"
LineNull    == "null"

StdoutLines == {LineDiag, LineOk1, LineOk2, LineNoUrl, LinePolicy, LineLog}
StderrLines == {LineDiag, LinePolicy, LineErrOnly, LineNull}

\* JSON.parse on one line: kind "invalid" stands for the SyntaxError it throws.
JSONparse(line) ==
    CASE line = LineOk1     -> [kind |-> "object", success |-> "true",  publicUrl |-> "https://x/1", error |-> Absent]
      [] line = LineOk2     -> [kind |-> "object", success |-> "true",  publicUrl |-> "https://x/2", error |-> Absent]
      [] line = LineNoUrl   -> [kind |-> "object", success |-> "true",  publicUrl |-> Absent, error |-> Absent]
      [] line = LinePolicy  -> [kind |-> "object", success |-> "false", publicUrl |-> Absent, error |-> "policy violation"]
      [] line = LineFalse   -> [kind |-> "object", success |-> "false", publicUrl |-> Absent, error |-> Absent]
      [] line = LineErrOnly -> [kind |-> "object", success |-> Absent,  publicUrl |-> Absent, error |-> "boom"]
      [] line = LineLog     -> [kind |-> "object", success |-> Absent,  publicUrl |-> Absent, error |-> Absent]
      [] line = LineNull    -> [kind |-> "null",   success |-> Absent,  publicUrl |-> Absent, error |-> Absent]
      [] OTHER              -> [kind |-> "invalid", success |-> Absent, publicUrl |-> Absent, error |-> Absent]

\* The exit codes and signals a child process can end with.
ExitCodes == {0, 1, -1}          \* -1 stands for code === null (ended by a signal)
Signals   == {Absent, "SIGKILL", "SIGTERM"}

CodeText(code) == CASE code = 0 -> "0" [] code = 1 -> "1" [] OTHER -> "null"

\* `Worker exited with code ${code}` + (signal ? ` (signal: ${signal})` : '')
ExitMessage(code, signal) ==
    ("Worker exited with code " \o CodeText(code))
        \o (IF signal # Absent THEN (" (signal: " \o signal) \o ")" ELSE "")

TimeoutResult ==
    [success |-> FALSE, publicUrl |-> Absent,
     error |-> "Task timeout after 25 minutes"]

SpawnFailResult ==
    [success |-> FALSE, publicUrl |-> Absent,
     error |-> "Failed to start worker: spawn ENOENT"]

NoValidResult ==
    [success |-> FALSE, publicUrl |-> Absent,
     error |-> "Worker completed but no valid result URL found"]

\* The backward walk of the code === 0 branch: the index of the last line
\* that parses to an object with a `success` field, 0 when there is none.
RECURSIVE LastStatusLine(_, _)
LastStatusLine(lines, i) ==
    IF i = 0 THEN 0
    ELSE LET parsed == JSONparse(lines[i])
         IN  IF parsed.kind = "object" /\ parsed.success # Absent
             THEN i
             ELSE LastStatusLine(lines, i - 1)

\* The code === 0 branch of the 'exit' handler.
ExitZeroResult(out) ==
    LET i == LastStatusLine(out, Len(out))
    IN  IF i # 0 /\ JSONparse(out[i]).success = "true"
                 /\ JSONparse(out[i]).publicUrl # Absent
        THEN [success |-> TRUE, publicUrl |-> JSONparse(out[i]).publicUrl, error |-> Absent]
        ELSE NoValidResult

\* lines.find(...) of the non-zero branch: the index of the FIRST line whose
\* parse has a truthy `error` or `success === false`, 0 when there is none
\* (JSON.parse("null").error throws inside the callback, which returns false).
RECURSIVE FirstErrorLine(_, _)
FirstErrorLine(lines, i) ==
    IF i > Len(lines) THEN 0
    ELSE LET parsed == JSONparse(lines[i])
         IN  IF parsed.kind = "object"
                   /\ (parsed.error # Absent \/ parsed.success = "false")
             THEN i
             ELSE FirstErrorLine(lines, i + 1)

\* The non-zero branch of the 'exit' handler.
ExitNonZeroResult(code, signal, out, err) ==
    LET lines == out \o err
        i     == FirstErrorLine(lines, 1)
        msg   == IF i # 0 /\ JSONparse(lines[i]).error # Absent
                 THEN JSONparse(lines[i]).error
                 ELSE ExitMessage(code, signal)
    IN  [success |-> FALSE, publicUrl |-> Absent, error |-> msg]

\* The 'exit' handler without its test of the exit code.
ExitResultIgnoresCode(code, signal, out, err) == ExitZeroResult(out)

ExitResult(code, signal, out, err) ==
    IF code = 0 THEN ExitZeroResult(out)
    ELSE ExitNonZeroResult(code, signal, out, err)

\* resolvePromise(value): a promise settles once; later calls are ignored.
ResolveOverwrites(value) ==
    /\ promise' = "resolved"
    /\ result' = value

ResolvePromise(value) ==
    IF promise = "pending"
    THEN promise' = "resolved" /\ result' = value
    ELSE UNCHANGED <<promise, result>>

NoteFirst(ev) ==
    firstEvent' = IF firstEvent = "none" THEN ev ELSE firstEvent

\* The other components at rest, for the specifications that do not use them.
IdleWorker ==
    /\ proc = "exited" /\ timer = "cleared" /\ killed = FALSE
    /\ promise = "resolved" /\ result = NoResult
    /\ stdout = <<>> /\ stderr = <<>> /\ errored = FALSE /\ firstEvent = "none"
    /\ exitEvent = <<>>

InitWorkerOnly ==
    /\ proc = "running"
    /\ timer = "armed"
    /\ killed = FALSE
    /\ promise = "pending"
    /\ result = NoResult
    /\ stdout = <<>>
    /\ stderr = <<>>
    /\ errored = FALSE
    /\ firstEvent = "none"
    /\ exitEvent = <<>>

\* workerProcess.stdout.on('data')
OnStdout ==
    /\ proc = "running"
    /\ Len(stdout) < MaxLines
    /\ \E l \in StdoutLines : stdout' = Append(stdout, l)
    /\ UNCHANGED <<proc, timer, killed, promise, result, stderr, errored, firstEvent, exitEvent>>
    /\ UNCHANGED notWorkerVars

\* workerProcess.stderr.on('data')
OnStderr ==
    /\ proc = "running"
    /\ Len(stderr) < MaxLines
    /\ \E l \in StderrLines : stderr' = Append(stderr, l)
    /\ UNCHANGED <<proc, timer, killed, promise, result, stdout, errored, firstEvent, exitEvent>>
    /\ UNCHANGED notWorkerVars

\* workerProcess.on('error'): the process could not be spawned.
OnErrorRejects ==
    /\ proc = "running" /\ ~errored /\ ~killed
    /\ stdout = <<>> /\ stderr = <<>>
    /\ errored' = TRUE
    /\ proc' = "failed"
    /\ timer' = IF timer = "armed" THEN "cleared" ELSE timer
    /\ promise' = IF promise = "pending" THEN "rejected" ELSE promise
    /\ NoteFirst("error")
    /\ UNCHANGED <<killed, result, stdout, stderr, exitEvent>>
    /\ UNCHANGED notWorkerVars

OnError ==
    /\ proc = "running" /\ ~errored /\ ~killed
    /\ stdout = <<>> /\ stderr = <<>>
    /\ errored' = TRUE
    /\ proc' = "failed"
    /\ timer' = IF timer = "armed" THEN "cleared" ELSE timer
    /\ ResolvePromise(SpawnFailResult)
    /\ NoteFirst("error")
    /\ UNCHANGED <<killed, stdout, stderr, exitEvent>>
    /\ UNCHANGED notWorkerVars

\* workerProcess.on('exit'). A killed process ends with code null and the
\* signal; after an 'error' the 'exit' event may or may not follow.
OnExit ==
    /\ proc \in {"running", "failed"}
    /\ \E code \in ExitCodes, signal \in Signals :
          /\ (code = -1) <=> (signal # Absent)
          /\ killed => signal = "SIGKILL"
          /\ proc' = "exited"
          /\ timer' = IF timer = "armed" THEN "cleared" ELSE timer
          /\ ResolvePromise(ExitResult(code, signal, stdout, stderr))
          /\ exitEvent' = <<code, signal>>
    /\ NoteFirst("exit")
    /\ UNCHANGED <<killed, stdout, stderr, errored>>
    /\ UNCHANGED notWorkerVars

\* The code === 0 branch of the JavaScript build of the runner: the
\* FIRST line that JSON.parse accepts; reading `.success` of a parsed null
\* throws, which the outer catch turns into a "Failed to parse output" result.
RECURSIVE FirstJsonLine(_, _)
FirstJsonLine(lines, i) ==
    IF i > Len(lines) THEN 0
    ELSE IF JSONparse(lines[i]).kind # "invalid" THEN i
    ELSE FirstJsonLine(lines, i + 1)

ParseFailResult ==
    [success |-> FALSE, publicUrl |-> Absent,
     error |-> "Failed to parse output: Cannot read properties of null (reading 'success')"]

DistExitZeroResult(out) ==
    LET i == FirstJsonLine(out, 1)
    IN  IF i = 0 THEN NoValidResult
        ELSE IF JSONparse(out[i]).kind = "null" THEN ParseFailResult
        ELSE IF JSONparse(out[i]).success = "true" /\ JSONparse(out[i]).publicUrl # Absent
        THEN [success |-> TRUE, publicUrl |-> JSONparse(out[i]).publicUrl, error |-> Absent]
        ELSE NoValidResult

\* workerProcess.on('exit') of the JavaScript build.
DistOnExit ==
    /\ proc \in {"running", "failed"}
    /\ \E code \in ExitCodes, signal \in Signals :
          /\ (code = -1) <=> (signal # Absent)
          /\ killed => signal = "SIGKILL"
          /\ proc' = "exited"
          /\ timer' = IF timer = "armed" THEN "cleared" ELSE timer
          /\ ResolvePromise(IF code = 0 THEN DistExitZeroResult(stdout)
                            ELSE ExitNonZeroResult(code, signal, stdout, stderr))
          /\ exitEvent' = <<code, signal>>
    /\ NoteFirst("exit")
    /\ UNCHANGED <<killed, stdout, stderr, errored>>
    /\ UNCHANGED notWorkerVars

\* The setTimeout callback.
TimeoutNoResolve ==
    /\ timer = "armed"
    /\ timer' = "fired"
    /\ killed' = TRUE
    /\ NoteFirst("timeout")
    /\ UNCHANGED <<proc, promise, result, stdout, stderr, errored, exitEvent>>
    /\ UNCHANGED notWorkerVars

OnTimeout ==
    /\ timer = "armed"
    /\ timer' = "fired"
    /\ killed' = TRUE
    /\ ResolvePromise(TimeoutResult)
    /\ NoteFirst("timeout")
    /\ UNCHANGED <<proc, stdout, stderr, errored, exitEvent>>
    /\ UNCHANGED notWorkerVars

----------------------------------------------------------------------------
(* The profile store and AccountSelector.selectAvailableProfile *)

\* Bounds: concurrent callers, and the last clock tick.
NumCallers == 2
MaxClock == 5

CREDIT_THRESHOLD == 5

Null == -1
None == "<none>"

ProfileNames == {"p1", "p2"}
MachineIds   == {"m1", "m2"}
Statuses     == {"active", "low_credit", "disabled"}
Credits      == {Null, 4, 5}

CallerIds == 1..NumCallers

\* runtimeConfig.MACHINE_ID of the process that makes the call.
MachineOf(c) == IF c <= 2 THEN "m1" ELSE "m2"

\* The query of selectAvailableProfile: this machine, status active,
\* creditRemaining >= 5 or null, name not in excludeProfileNames.
Matches(doc, name, machine, excl) ==
    /\ doc.machineId = machine
    /\ doc.status = "active"
    /\ (doc.creditRemaining = Null \/ doc.creditRemaining >= CREDIT_THRESHOLD)
    /\ name \notin excl

EligibleSet(machine, excl) ==
    {n \in ProfileNames : Matches(profiles[n], n, machine, excl)}

\* The ascending sort as it would be with null after every timestamp.
SortsBeforeNullsLast(a, b) == a # b /\ (b = Null \/ (a # Null /\ a < b))

\* sort: { lastRunAt: 1 }: ascending, null before every timestamp.
SortsBefore(a, b) == a # b /\ (a = Null \/ (b # Null /\ a < b))

\* findOne(query, {sort}): a matching document none sorts before; documents
\* with equal lastRunAt come in the store's own order, which is any.
FindOneResults(machine, excl) ==
    {n \in EligibleSet(machine, excl) :
        \A m \in EligibleSet(machine, excl) :
            ~SortsBefore(profiles[m].lastRunAt, profiles[n].lastRunAt)}

InitStore ==
    /\ profiles \in [ProfileNames ->
          [machineId : MachineIds, status : Statuses,
           creditRemaining : Credits, lastRunAt : {Null, 1}]]
    /\ clock = 2

InitSelOnly ==
    /\ selPc = [c \in CallerIds |-> "idle"]
    /\ selFound = [c \in CallerIds |-> None]
    /\ selExcl = [c \in CallerIds |-> {}]
    /\ selRet = [c \in CallerIds |-> "<no call>"]
    /\ selSaw = [c \in CallerIds |-> {}]
    /\ selCount = [n \in ProfileNames |-> 0]

Returned == {n \in ProfileNames : selCount[n] > 0}

\* findOne finds no profile: the call returns null.
SelFindNone(c) ==
    /\ selPc[c] = "idle"
    /\ \E excl \in {{}, {"p1"}} :
          /\ FindOneResults(MachineOf(c), excl) = {}
          /\ selExcl' = [selExcl EXCEPT ![c] = excl]
    /\ selFound' = [selFound EXCEPT ![c] = None]
    /\ selRet' = [selRet EXCEPT ![c] = None]
    /\ selSaw' = [selSaw EXCEPT ![c] = Returned]
    /\ UNCHANGED <<selPc, selCount, storeVars>>
    /\ UNCHANGED notSelVars

\* findOne finds a profile: the call goes on to the updateOne.
SelFindOne(c) ==
    /\ selPc[c] = "idle"
    /\ clock < MaxClock
    /\ \E excl \in {{}, {"p1"}} :
          /\ selExcl' = [selExcl EXCEPT ![c] = excl]
          /\ \E n \in FindOneResults(MachineOf(c), excl) :
                selFound' = [selFound EXCEPT ![c] = n]
    /\ selPc' = [selPc EXCEPT ![c] = "stamp"]
    /\ selSaw' = [selSaw EXCEPT ![c] = Returned]
    /\ UNCHANGED <<selRet, selCount, storeVars>>
    /\ UNCHANGED notSelVars

\* updateOne({_id}, {$set: {lastRunAt: now}}), then `return profile`.
Stamp(n) == [profiles EXCEPT ![n].lastRunAt = clock]

SelStamp(c) ==
    /\ selPc[c] = "stamp"
    /\ profiles' = Stamp(selFound[c])
    /\ clock' = clock + 1
    /\ selPc' = [selPc EXCEPT ![c] = "idle"]
    /\ selRet' = [selRet EXCEPT ![c] = selFound[c]]
    /\ selCount' = [selCount EXCEPT ![selFound[c]] = @ + 1]
    /\ UNCHANGED <<selFound, selExcl, selSaw>>
    /\ UNCHANGED notSelVars

\* selectAvailableProfile of src/orchestrator/src/accountSelector.ts: one
\* findOne whose query has status active and creditRemaining >= 5 or null,
\* and neither a machineId nor a name condition; no updateOne follows.
OrchMatches(doc) ==
    /\ doc.status = "active"
    /\ (doc.creditRemaining = Null \/ doc.creditRemaining >= CREDIT_THRESHOLD)

OrchFindOneResults ==
    LET found == {n \in ProfileNames : OrchMatches(profiles[n])}
    IN  {n \in found :
            \A m \in found : ~SortsBefore(profiles[m].lastRunAt, profiles[n].lastRunAt)}

\* findOne finds no profile: the call returns null.
OrchSelectNone(c) ==
    /\ OrchFindOneResults = {}
    /\ selFound' = [selFound EXCEPT ![c] = None]
    /\ selRet' = [selRet EXCEPT ![c] = None]
    /\ selSaw' = [selSaw EXCEPT ![c] = Returned]
    /\ UNCHANGED <<selPc, selExcl, selCount, storeVars>>
    /\ UNCHANGED notSelVars

\* findOne finds a profile: the call returns it. (The history counter
\* selCount stops at MaxClock.)
OrchSelect(c) ==
    /\ \E n \in OrchFindOneResults :
          /\ selFound' = [selFound EXCEPT ![c] = n]
          /\ selRet' = [selRet EXCEPT ![c] = n]
          /\ selCount' = [selCount EXCEPT ![n] = IF @ < MaxClock THEN @ + 1 ELSE @]
    /\ selSaw' = [selSaw EXCEPT ![c] = Returned]
    /\ UNCHANGED <<selPc, selExcl, storeVars>>
    /\ UNCHANGED notSelVars

----------------------------------------------------------------------------
(* TaskStore: the task records *)

\* Bound: the last clock tick of the store's own specification.
StoreMaxClock == 3

TaskIds  == {"t1", "t2"}
\* The ids the store's own specification calls updateTaskStatus for.
StoreUpdatedIds == {"t1"}
Prompts  == {"a cat", "a dog"}
TaskStatuses == {"claimed", "processing", "completed", "failed", "timeout"}

\* The index of the first document with this taskId, 0 when there is none.
FindTask(coll, id) ==
    IF \E i \in DOMAIN coll : coll[i].taskId = id
    THEN CHOOSE i \in DOMAIN coll :
            /\ coll[i].taskId = id
            /\ \A j \in DOMAIN coll : coll[j].taskId = id => i <= j
    ELSE 0

\* The record saveTask builds from the claimed task.
NewTaskRecord(task, now) ==
    [taskId |-> task.id, prompt |-> task.prompt, status |-> "claimed",
     profileName |-> Absent, publicUrl |-> Absent, error |-> Absent,
     claimedAt |-> now, startedAt |-> Null, completedAt |-> Null,
     createdAt |-> now, updatedAt |-> now]

\* saveTask: updateOne({taskId}, {$setOnInsert: record}, {upsert: true}).
SaveTaskOverwrites(coll, task, now) ==
    IF FindTask(coll, task.id) = 0
    THEN Append(coll, NewTaskRecord(task, now))
    ELSE [coll EXCEPT ![FindTask(coll, task.id)] = NewTaskRecord(task, now)]

SaveTask(coll, task, now) ==
    IF FindTask(coll, task.id) = 0
    THEN Append(coll, NewTaskRecord(task, now))
    ELSE coll

\* updateData of updateTaskStatus: status, updatedAt and the caller's
\* updates, then the timestamps the status calls for.
UpdateData(status, updates, now) ==
    LET base == [f \in {"status", "updatedAt"} \cup DOMAIN updates |->
                    IF f \in DOMAIN updates THEN updates[f]
                    ELSE IF f = "status" THEN status ELSE now]
        Has(d, f) == f \in DOMAIN d /\ d[f] # Null
        Put(d, f, v) == [g \in DOMAIN d \cup {f} |-> IF g = f THEN v ELSE d[g]]
        d1 == IF status = "processing" /\ ~Has(base, "startedAt")
              THEN Put(base, "startedAt", now) ELSE base
        d2 == IF status = "completed" /\ ~Has(d1, "completedAt")
              THEN Put(d1, "completedAt", now) ELSE d1
    IN  IF status \in {"failed", "timeout"}
        THEN Put(d2, "completedAt", now) ELSE d2

\* updateTaskStatus: updateOne({taskId}, {$set: updateData}), no upsert.
UpdateTaskStatus(coll, id, status, updates, now) ==
    LET i == FindTask(coll, id)
        d == UpdateData(status, updates, now)
    IN  IF i = 0 THEN coll
        ELSE [coll EXCEPT ![i] =
                [f \in DOMAIN coll[i] |-> IF f \in DOMAIN d THEN d[f] ELSE coll[i][f]]]

\* The stored status of a task, None when it has no record.
StatusOf(coll, id) ==
    IF FindTask(coll, id) = 0 THEN None ELSE coll[FindTask(coll, id)].status

NoUpdates == [f \in {} |-> Null]

\* The (status, updates) pairs the callers of updateTaskStatus pass.
StatusCalls ==
    {<<"processing", [profileName |-> n]>> : n \in ProfileNames}
        \cup {<<"completed", [publicUrl |-> "https://x/1"]>>,
              <<"failed", [error |-> "policy violation"]>>,
              <<"timeout", [error |-> "Task timeout after 25 minutes"]>>,
              <<"processing", [profileName |-> "p1", startedAt |-> 1]>>,
              <<"completed", [publicUrl |-> "https://x/1", completedAt |-> 1]>>,
              <<"failed", [error |-> "policy violation", completedAt |-> 1]>>}

InitTasksOnly ==
    /\ tasksCollection = <<>>
    /\ lastOp = <<"none">>

StoreSaveTask ==
    /\ \E id \in TaskIds, prompt \in Prompts :
          /\ tasksCollection' = SaveTask(tasksCollection, [id |-> id, prompt |-> prompt], clock)
          /\ lastOp' = <<"saveTask", id, prompt>>
    /\ UNCHANGED clock
    /\ UNCHANGED notTaskVars

StoreUpdateTaskStatus ==
    /\ \E id \in StoreUpdatedIds, call \in StatusCalls :
          /\ tasksCollection' = UpdateTaskStatus(tasksCollection, id, call[1], call[2], clock)
          /\ lastOp' = <<"updateTaskStatus", id, call[1], call[2]>>
    /\ UNCHANGED clock
    /\ UNCHANGED notTaskVars

\* Time passes between store operations.
StoreClockTick ==
    /\ clock < StoreMaxClock
    /\ clock' = clock + 1
    /\ lastOp' = <<"tick">>
    /\ UNCHANGED tasksCollection
    /\ UNCHANGED notTaskVars

----------------------------------------------------------------------------
(* Orchestrator: the scheduler loop and the reconciliation of its workers *)

\* Bounds: the concurrency cap of the run, and the tasks the source hands out.
MAX_CONCURRENT_WORKERS == 2
MaxClaims == 3
MaxFairClaims == 2

InvIds == 1..MaxClaims

\* runtimeConfig.MACHINE_ID of this orchestrator.
LocalMachine == "m1"

\* The WorkerResult values a worker's promise resolves to here.
WorkerOutcomes ==
    {[success |-> TRUE, publicUrl |-> "https://x/1", error |-> Absent],
     [success |-> FALSE, publicUrl |-> Absent, error |-> "policy violation"],
     [success |-> FALSE, publicUrl |-> Absent, error |-> "Timeout 30000ms exceeded"],
     TimeoutResult}

NoTask == [id |-> None, prompt |-> None]

\* An invocation whose reconciliation has returned: its locals are gone.
DoneInv == [state |-> "resolved", taskId |-> None, profile |-> None,
            result |-> NoResult, hpc |-> "done"]

NoInv == [state |-> "unused", taskId |-> None, profile |-> None,
          result |-> NoResult, hpc |-> "none"]

Running == {i \in InvIds : inv[i].state = "running"}

ActiveCount == Cardinality({t \in TaskIds : activeWorkers[t] # 0})

\* canStartNewWorker with `<=` in place of `<`.
CanStartNewWorkerAtLimit == ActiveCount <= MAX_CONCURRENT_WORKERS

\* canStartNewWorker(): activeWorkers.size < MAX_CONCURRENT_WORKERS
CanStartNewWorker == ActiveCount < MAX_CONCURRENT_WORKERS

InitOrchOnly ==
    /\ activeWorkers = [t \in TaskIds |-> 0]
    /\ inv = [i \in InvIds |-> NoInv]
    /\ tickPc = "sleep"
    /\ tickProfile = None
    /\ tickTask = NoTask
    /\ claimCalls = 0
    /\ dailyStats = <<>>
    /\ sourceLog = [t \in TaskIds |-> {}]

InitOrchStore ==
    /\ \E low \in SUBSET ProfileNames :
          /\ low \in {{}, {"p2"}, ProfileNames}
          /\ profiles = [n \in ProfileNames |->
                [machineId |-> LocalMachine,
                 status |-> IF n \in low THEN "low_credit" ELSE "active",
                 creditRemaining |-> IF n \in low THEN 4 ELSE Null,
                 lastRunAt |-> Null]]
    /\ clock = 2

\* The tick finds the active-worker map full and returns false.
TickSaturated ==
    /\ tickPc = "sleep"
    /\ ~CanStartNewWorker
    /\ UNCHANGED <<activeWorkers, inv, tickPc, tickProfile, tickTask, claimCalls,
                   dailyStats, sourceLog>>
    /\ UNCHANGED <<moreVars, shutVars, workerVars, storeVars, selVars, taskVars>>

\* The tick passes the canStartNewWorker check and calls selectAvailableProfile.
TickBegin ==
    /\ tickPc = "sleep"
    /\ CanStartNewWorker
    /\ clock < MaxClock
    /\ tickPc' = "select"
    /\ tickProfile' = None
    /\ tickTask' = NoTask
    /\ UNCHANGED <<activeWorkers, inv, claimCalls, dailyStats, sourceLog>>
    /\ UNCHANGED <<moreVars, shutVars, workerVars, storeVars, selVars, taskVars>>

\* selectAvailableProfile returns null: `if (!profile) return false`.
TickFindNone ==
    /\ tickPc = "select"
    /\ FindOneResults(LocalMachine, {}) = {}
    /\ tickPc' = "sleep"
    /\ UNCHANGED <<activeWorkers, inv, tickProfile, tickTask, claimCalls,
                   dailyStats, sourceLog>>
    /\ UNCHANGED <<moreVars, shutVars, workerVars, storeVars, selVars, taskVars>>

\* selectAvailableProfile: findOne returns a profile.
TickFindOne ==
    /\ tickPc = "select"
    /\ \E n \in FindOneResults(LocalMachine, {}) : tickProfile' = n
    /\ tickPc' = "stamp"
    /\ UNCHANGED <<activeWorkers, inv, tickTask, claimCalls, dailyStats, sourceLog>>
    /\ UNCHANGED <<moreVars, shutVars, workerVars, storeVars, selVars, taskVars>>

\* selectAvailableProfile: the updateOne of lastRunAt, then the return.
TickStamp ==
    /\ tickPc = "stamp"
    /\ profiles' = Stamp(tickProfile)
    /\ clock' = clock + 1
    /\ tickPc' = "claim"
    /\ UNCHANGED <<activeWorkers, inv, tickProfile, tickTask, claimCalls,
                   dailyStats, sourceLog>>
    /\ UNCHANGED <<moreVars, shutVars, workerVars, selVars, taskVars>>

\* claimTask returns null: no pending task, or a failure of the request.
TickClaimNone ==
    /\ tickPc = "claim"
    /\ tickPc' = "sleep"
    /\ tickProfile' = None
    /\ UNCHANGED <<activeWorkers, inv, tickTask, claimCalls, dailyStats, sourceLog>>
    /\ UNCHANGED <<moreVars, shutVars, workerVars, storeVars, selVars, taskVars>>

\* claimTask returns a task; the source may hand out an id it handed out before.
TickClaim ==
    /\ tickPc = "claim"
    /\ claimCalls < MaxClaims
    /\ \E id \in TaskIds : tickTask' = [id |-> id, prompt |-> "a cat"]
    /\ claimCalls' = claimCalls + 1
    /\ tickPc' = "save"
    /\ UNCHANGED <<activeWorkers, inv, tickProfile, dailyStats, sourceLog>>
    /\ UNCHANGED <<moreVars, shutVars, workerVars, storeVars, selVars, taskVars>>

\* startWorker without its saveTask call.
TickSaveSkipped ==
    /\ tickPc = "save"
    /\ tickPc' = "update"
    /\ UNCHANGED <<activeWorkers, inv, tickProfile, tickTask, claimCalls,
                   dailyStats, sourceLog>>
    /\ UNCHANGED <<moreVars, shutVars, workerVars, storeVars, selVars, taskVars>>

\* startWorker: await saveTask(task).
TickSave ==
    /\ tickPc = "save"
    /\ tasksCollection' = SaveTask(tasksCollection, tickTask, clock)
    /\ tickPc' = "update"
    /\ UNCHANGED <<activeWorkers, inv, tickProfile, tickTask, claimCalls,
                   dailyStats, sourceLog>>
    /\ UNCHANGED <<moreVars, shutVars, workerVars, storeVars, selVars, lastOp>>

\* startWorker: await updateTaskStatus(task.id, 'processing', {profileName}).
TickUpdate ==
    /\ tickPc = "update"
    /\ tasksCollection' = UpdateTaskStatus(tasksCollection, tickTask.id, "processing",
                                           [profileName |-> tickProfile], clock)
    /\ tickPc' = "start"
    /\ UNCHANGED <<activeWorkers, inv, tickProfile, tickTask, claimCalls,
                   dailyStats, sourceLog>>
    /\ UNCHANGED <<moreVars, shutVars, workerVars, storeVars, selVars, lastOp>>

\* startWorker as it would be with `await runWorker(...)`: the tick stays in
\* startWorker for as long as the worker runs.
TickStartWorkerAwaits ==
    /\ tickPc = "start"
    /\ LET i == CHOOSE j \in InvIds :
                    inv[j].state = "unused" /\ \A k \in InvIds : inv[k].state = "unused" => j <= k
       IN  /\ inv' = [inv EXCEPT ![i] = [state |-> "running", taskId |-> tickTask.id,
                                         profile |-> tickProfile, result |-> NoResult,
                                         hpc |-> "none"]]
           /\ activeWorkers' = [activeWorkers EXCEPT ![tickTask.id] = i]
    /\ tickPc' = "await"
    /\ UNCHANGED <<tickProfile, tickTask, claimCalls, dailyStats, sourceLog>>
    /\ UNCHANGED <<moreVars, shutVars, workerVars, storeVars, selVars, taskVars>>

\* startWorker: runWorker(...) is called and not awaited, the ActiveWorker is
\* put into the map under the task id, the continuation is attached.
TickStartWorker ==
    /\ tickPc = "start"
    /\ LET i == CHOOSE j \in InvIds :
                    inv[j].state = "unused" /\ \A k \in InvIds : inv[k].state = "unused" => j <= k
       IN  /\ inv' = [inv EXCEPT ![i] = [state |-> "running", taskId |-> tickTask.id,
                                         profile |-> tickProfile, result |-> NoResult,
                                         hpc |-> "none"]]
           /\ activeWorkers' = [activeWorkers EXCEPT ![tickTask.id] = i]
    /\ tickPc' = "sleep"
    /\ tickProfile' = None
    /\ tickTask' = NoTask
    /\ UNCHANGED <<claimCalls, dailyStats, sourceLog>>
    /\ UNCHANGED <<moreVars, shutVars, workerVars, storeVars, selVars, taskVars>>

\* The tick's error as it would be without the try/catch inside the loop:
\* the throw leaves the while loop.
TickStoreErrorEscapes ==
    /\ tickPc \in {"select", "stamp", "save", "update"}
    /\ tickPc' = "returned"
    /\ tickProfile' = None
    /\ tickTask' = NoTask
    /\ UNCHANGED <<activeWorkers, inv, claimCalls, dailyStats, sourceLog>>
    /\ UNCHANGED <<moreVars, shutVars, workerVars, storeVars, selVars, taskVars>>

\* A store call of the tick throws; the main loop's catch logs it and the
\* loop goes on to its sleep.
TickStoreError ==
    /\ tickPc \in {"select", "stamp", "save", "update"}
    /\ tickPc' = "sleep"
    /\ tickProfile' = None
    /\ tickTask' = NoTask
    /\ UNCHANGED <<activeWorkers, inv, claimCalls, dailyStats, sourceLog>>
    /\ UNCHANGED <<moreVars, shutVars, workerVars, storeVars, selVars, taskVars>>

\* handleWorkerComplete without `this.activeWorkers.delete(taskId)`.
WorkerResolveKeepsEntry(i) ==
    /\ inv[i].state = "running"
    /\ \E r \in WorkerOutcomes :
          inv' = [inv EXCEPT ![i].state = "resolved", ![i].result = r, ![i].hpc = "update"]
    /\ UNCHANGED <<activeWorkers, tickPc, tickProfile, tickTask, claimCalls, dailyStats,
                   sourceLog>>
    /\ UNCHANGED <<moreVars, shutVars, workerVars, storeVars, selVars, taskVars>>

\* A worker's promise resolves and its continuation runs handleWorkerComplete
\* up to the first await: the lookup by task id and the delete.
WorkerResolve(i) ==
    /\ inv[i].state = "running"
    /\ \E r \in WorkerOutcomes :
          LET t == inv[i].taskId
          IN  IF activeWorkers[t] = 0
              THEN /\ inv' = [inv EXCEPT ![i] = [DoneInv EXCEPT !.hpc = "dropped"]]
                   /\ UNCHANGED activeWorkers
              ELSE /\ inv' = [inv EXCEPT ![i].state = "resolved", ![i].result = r,
                                         ![i].hpc = "update",
                                         ![i].profile = inv[activeWorkers[t]].profile]
                   /\ activeWorkers' = [activeWorkers EXCEPT ![t] = 0]
    /\ UNCHANGED <<tickPc, tickProfile, tickTask, claimCalls, dailyStats, sourceLog>>
    /\ UNCHANGED <<moreVars, shutVars, workerVars, storeVars, selVars, taskVars>>

Succeeded(r) == r.success /\ r.publicUrl # Absent

\* errorMessage.includes('timeout') || errorMessage.includes('Timeout')
FailureStatusLowerCase(r) ==
    IF Includes(r.error, "timeout") THEN "timeout" ELSE "failed"

FailureStatus(r) ==
    IF Includes(r.error, "timeout") \/ Includes(r.error, "Timeout")
    THEN "timeout" ELSE "failed"

\* handleWorkerComplete: await updateTaskStatus(taskId, status, {...}).
HandleUpdate(i) ==
    /\ inv[i].hpc = "update"
    /\ LET r == inv[i].result
       IN  tasksCollection' =
             IF Succeeded(r)
             THEN UpdateTaskStatus(tasksCollection, inv[i].taskId, "completed",
                                   [publicUrl |-> r.publicUrl], clock)
             ELSE UpdateTaskStatus(tasksCollection, inv[i].taskId, FailureStatus(r),
                                   [error |-> r.error], clock)
    /\ inv' = [inv EXCEPT ![i].hpc = "stats"]
    /\ UNCHANGED <<activeWorkers, tickPc, tickProfile, tickTask, claimCalls,
                   dailyStats, sourceLog>>
    /\ UNCHANGED <<moreVars, shutVars, workerVars, storeVars, selVars, lastOp>>

ZeroStats == [totalTasks |-> 0, completedTasks |-> 0, failedTasks |-> 0, totalVideos |-> 0]

\* incrementDailyStats: the upsert that makes today's document exist.
EnsureStats(stats) == IF stats = <<>> THEN <<ZeroStats>> ELSE stats

\* incrementDailyStats: the $inc of today's document.
IncStatsNoVideos(stats, outcome, videoCount) ==
    IF stats = <<>> THEN <<>>
    ELSE IF outcome = "completed"
    THEN [stats EXCEPT ![1].totalTasks = @ + 1, ![1].completedTasks = @ + 1]
    ELSE [stats EXCEPT ![1].totalTasks = @ + 1, ![1].failedTasks = @ + 1]

IncStats(stats, outcome, videoCount) ==
    IF stats = <<>> THEN <<>>
    ELSE IF outcome = "completed"
    THEN [stats EXCEPT ![1].totalTasks = @ + 1, ![1].completedTasks = @ + 1,
                       ![1].totalVideos = @ + videoCount]
    ELSE [stats EXCEPT ![1].totalTasks = @ + 1, ![1].failedTasks = @ + 1]

\* handleWorkerComplete: await incrementDailyStats(today, status, 1). Its two
\* updates commute with those of every other call, so they are one step here.
HandleStats(i) ==
    /\ inv[i].hpc = "stats"
    /\ dailyStats' = IncStats(EnsureStats(dailyStats),
                              IF Succeeded(inv[i].result) THEN "completed" ELSE "failed", 1)
    /\ inv' = [inv EXCEPT ![i].hpc = "source"]
    /\ UNCHANGED <<activeWorkers, tickPc, tickProfile, tickTask, claimCalls, sourceLog>>
    /\ UNCHANGED <<moreVars, shutVars, workerVars, storeVars, selVars, taskVars>>

\* TaskClient.completeTask / reportTask: the PUT reaches the task source, or
\* the request fails and the method returns false.
SourceTold(log, id, what, delivered) ==
    IF delivered THEN [log EXCEPT ![id] = @ \cup {what}] ELSE log

\* completeTask(taskId, publicUrl), or reportTask(taskId, errorMessage) followed
\* by sendErrorNotification(taskId, errorMessage, profile), which changes no state.
HandleSource(i) ==
    /\ inv[i].hpc = "source"
    /\ \E delivered \in BOOLEAN :
          sourceLog' = SourceTold(sourceLog, inv[i].taskId,
                                  IF Succeeded(inv[i].result) THEN "completed" ELSE "reported",
                                  delivered)
    /\ inv' = [inv EXCEPT ![i] = DoneInv]
    /\ UNCHANGED <<activeWorkers, tickPc, tickProfile, tickTask, claimCalls, dailyStats>>
    /\ UNCHANGED <<moreVars, shutVars, workerVars, storeVars, selVars, taskVars>>

\* A store call of the reconciliation throws: the catch logs it, nothing more.
HandleStoreError(i) ==
    /\ inv[i].hpc \in {"update", "stats"}
    /\ inv' = [inv EXCEPT ![i] = DoneInv]
    /\ UNCHANGED <<activeWorkers, tickPc, tickProfile, tickTask, claimCalls,
                   dailyStats, sourceLog>>
    /\ UNCHANGED <<moreVars, shutVars, workerVars, storeVars, selVars, taskVars>>

----------------------------------------------------------------------------
(* processTask: the sequential poll loop, one task at a time *)

NoProfilesMessage == "No available profiles with sufficient credits"

\* The locals of one processTask call: the awaited WorkerResult.
SeqLocals == <<[NoInv EXCEPT !.state = "sequential"]>>

InitProcessTask ==
    /\ activeWorkers = <<>>
    /\ inv = SeqLocals
    /\ tickPc = "sleep"
    /\ tickProfile = None
    /\ tickTask = NoTask
    /\ claimCalls = 0
    /\ dailyStats = <<>>
    /\ sourceLog = [t \in TaskIds |-> {}]

\* The main loop calls processTask, which goes straight to claimTask.
ProcessBegin ==
    /\ tickPc = "sleep"
    /\ clock < MaxClock
    /\ tickPc' = "claim"
    /\ UNCHANGED <<activeWorkers, inv, tickProfile, tickTask, claimCalls, dailyStats, sourceLog>>
    /\ UNCHANGED <<moreVars, shutVars, workerVars, storeVars, selVars, taskVars>>

\* claimTask returns null: `if (!task) return`.
ProcessClaimNone ==
    /\ tickPc = "claim"
    /\ tickPc' = "sleep"
    /\ clock' = clock + 1
    /\ UNCHANGED <<activeWorkers, inv, tickProfile, tickTask, claimCalls, dailyStats, sourceLog>>
    /\ UNCHANGED <<moreVars, shutVars, workerVars, profiles, selVars, taskVars>>

\* claimTask returns a task.
ProcessClaim ==
    /\ tickPc = "claim"
    /\ claimCalls < MaxClaims
    /\ \E id \in TaskIds : tickTask' = [id |-> id, prompt |-> "a cat"]
    /\ claimCalls' = claimCalls + 1
    /\ tickPc' = "save"
    /\ UNCHANGED <<activeWorkers, inv, tickProfile, dailyStats, sourceLog>>
    /\ UNCHANGED <<moreVars, shutVars, workerVars, storeVars, selVars, taskVars>>

\* await taskStore.saveTask(task, PRODUCT_CODE)
ProcessSave ==
    /\ tickPc = "save"
    /\ tasksCollection' = SaveTask(tasksCollection, tickTask, clock)
    /\ tickPc' = "select"
    /\ UNCHANGED <<activeWorkers, inv, tickProfile, tickTask, claimCalls, dailyStats, sourceLog>>
    /\ UNCHANGED <<moreVars, shutVars, workerVars, storeVars, selVars, lastOp>>

\* selectAvailableProfile returns null for the task that is already claimed.
ProcessFindNone ==
    /\ tickPc = "select"
    /\ FindOneResults(LocalMachine, {}) = {}
    /\ tickPc' = "noprofile"
    /\ UNCHANGED <<activeWorkers, inv, tickProfile, tickTask, claimCalls, dailyStats, sourceLog>>
    /\ UNCHANGED <<moreVars, shutVars, workerVars, storeVars, selVars, taskVars>>

\* selectAvailableProfile returns a profile; no other caller uses the store
\* here, so its findOne and its updateOne are one step.
ProcessSelect ==
    /\ tickPc = "select"
    /\ \E n \in FindOneResults(LocalMachine, {}) :
          /\ tickProfile' = n
          /\ profiles' = Stamp(n)
    /\ clock' = clock + 1
    /\ tickPc' = "update"
    /\ UNCHANGED <<activeWorkers, inv, tickTask, claimCalls, dailyStats, sourceLog>>
    /\ UNCHANGED <<moreVars, shutVars, workerVars, selVars, taskVars>>

\* The `if (!profile)` branch: updateTaskStatus(task.id, 'failed', {error});
\* its incrementDailyStats and reportTask are the steps of the failure branch.
ProcessNoProfile ==
    /\ tickPc = "noprofile"
    /\ tasksCollection' = UpdateTaskStatus(tasksCollection, tickTask.id, "failed",
                                           [error |-> NoProfilesMessage], clock)
    /\ inv' = [inv EXCEPT ![1].result =
                  [success |-> FALSE, publicUrl |-> Absent, error |-> NoProfilesMessage]]
    /\ tickPc' = "stats"
    /\ UNCHANGED <<activeWorkers, tickProfile, tickTask, claimCalls, dailyStats, sourceLog>>
    /\ UNCHANGED <<moreVars, shutVars, workerVars, storeVars, selVars, lastOp>>

\* await taskStore.updateTaskStatus(task.id, 'processing', {profileName})
ProcessUpdate ==
    /\ tickPc = "update"
    /\ tasksCollection' = UpdateTaskStatus(tasksCollection, tickTask.id, "processing",
                                           [profileName |-> tickProfile], clock)
    /\ tickPc' = "run"
    /\ UNCHANGED <<activeWorkers, inv, tickProfile, tickTask, claimCalls, dailyStats, sourceLog>>
    /\ UNCHANGED <<moreVars, shutVars, workerVars, storeVars, selVars, lastOp>>

\* const result = await workerRunner.runWorker(...)
ProcessRunWorker ==
    /\ tickPc = "run"
    /\ \E r \in WorkerOutcomes : inv' = [inv EXCEPT ![1].result = r]
    /\ tickPc' = "reconcile"
    /\ UNCHANGED <<activeWorkers, tickProfile, tickTask, claimCalls, dailyStats, sourceLog>>
    /\ UNCHANGED <<moreVars, shutVars, workerVars, storeVars, selVars, taskVars>>

\* updateTaskStatus(task.id, 'completed' | status, {...}) of the two branches.
ProcessReconcile ==
    /\ tickPc = "reconcile"
    /\ LET r == inv[1].result
       IN  tasksCollection' =
             IF Succeeded(r)
             THEN UpdateTaskStatus(tasksCollection, tickTask.id, "completed",
                                   [publicUrl |-> r.publicUrl], clock)
             ELSE UpdateTaskStatus(tasksCollection, tickTask.id, FailureStatus(r),
                                   [error |-> r.error], clock)
    /\ tickPc' = "stats"
    /\ UNCHANGED <<activeWorkers, inv, tickProfile, tickTask, claimCalls, dailyStats, sourceLog>>
    /\ UNCHANGED <<moreVars, shutVars, workerVars, storeVars, selVars, lastOp>>

\* await taskStore.incrementDailyStats('completed', 1) or ('failed')
ProcessStats ==
    /\ tickPc = "stats"
    /\ dailyStats' = IncStats(EnsureStats(dailyStats),
                              IF Succeeded(inv[1].result) THEN "completed" ELSE "failed", 1)
    /\ tickPc' = "source"
    /\ UNCHANGED <<activeWorkers, inv, tickProfile, tickTask, claimCalls, sourceLog>>
    /\ UNCHANGED <<moreVars, shutVars, workerVars, storeVars, selVars, taskVars>>

\* completeTask or reportTask (and the notification); processTask returns.
ProcessSource ==
    /\ tickPc = "source"
    /\ \E delivered \in BOOLEAN :
          sourceLog' = SourceTold(sourceLog, tickTask.id,
                                  IF Succeeded(inv[1].result) THEN "completed" ELSE "reported",
                                  delivered)
    /\ tickPc' = "sleep"
    /\ inv' = SeqLocals
    /\ tickProfile' = None
    /\ tickTask' = NoTask
    /\ UNCHANGED <<activeWorkers, claimCalls, dailyStats>>
    /\ UNCHANGED <<moreVars, shutVars, workerVars, storeVars, selVars, taskVars>>

\* A store call throws: the catch logs it and the task keeps its status.
ProcessStoreError ==
    /\ tickPc \in {"save", "select", "noprofile", "update", "reconcile", "stats"}
    /\ tickPc' = "sleep"
    /\ inv' = SeqLocals
    /\ tickProfile' = None
    /\ tickTask' = NoTask
    /\ UNCHANGED <<activeWorkers, claimCalls, dailyStats, sourceLog>>
    /\ UNCHANGED <<moreVars, shutVars, workerVars, storeVars, selVars, taskVars>>

----------------------------------------------------------------------------
(* Orchestrator.shutdown, the SIGINT/SIGTERM handlers and the main loop's end *)

MaxSignals == 2
MaxShutdownClaims == 2

orchOnlyVars == <<activeWorkers, inv, tickPc, tickProfile, tickTask, claimCalls,
                  dailyStats, sourceLog>>
restVars == <<workerVars, storeVars, selVars, taskVars, moreVars>>

\* The invocations whose promises are in the map: activeWorkers.values().
MapInvocations == {activeWorkers[t] : t \in {u \in TaskIds : activeWorkers[u] # 0}}

\* process.on('SIGINT' | 'SIGTERM'): await shutdown(), then process.exit(0).
\* shutdown() returns at once when isShuttingDown is set, and the handler
\* exits; otherwise it sets the flag and awaits Promise.allSettled of the
\* promises in the map, or goes on to the disconnects when the map is empty.
OnSignal ==
    /\ ~exited
    /\ signals < MaxSignals
    /\ signals' = signals + 1
    /\ IF isShuttingDown
       THEN /\ exited' = TRUE
            /\ UNCHANGED <<isShuttingDown, shutPc, shutAwaits, connected>>
       ELSE /\ isShuttingDown' = TRUE
            /\ shutAwaits' = MapInvocations
            /\ shutPc' = IF ActiveCount > 0 THEN "allSettled" ELSE "accountSelector"
            /\ UNCHANGED <<connected, exited>>
    /\ UNCHANGED <<orchOnlyVars, restVars>>

\* shutdown: every promise passed to Promise.allSettled has settled.
ShutdownAllSettled ==
    /\ ~exited
    /\ shutPc = "allSettled"
    /\ \A i \in shutAwaits : inv[i].state # "running"
    /\ shutPc' = "accountSelector"
    /\ UNCHANGED <<isShuttingDown, shutAwaits, connected, exited, signals>>
    /\ UNCHANGED <<orchOnlyVars, restVars>>

\* shutdown: await this.accountSelector.disconnect().
ShutdownDisconnectSelector ==
    /\ ~exited
    /\ shutPc = "accountSelector"
    /\ connected' = connected \ {"accountSelector"}
    /\ shutPc' = "taskStore"
    /\ UNCHANGED <<isShuttingDown, shutAwaits, exited, signals>>
    /\ UNCHANGED <<orchOnlyVars, restVars>>

\* shutdown: await this.taskStore.disconnect(); shutdown returns and the
\* signal handler calls process.exit(0).
ShutdownDisconnectStore ==
    /\ ~exited
    /\ shutPc = "taskStore"
    /\ connected' = connected \ {"taskStore"}
    /\ shutPc' = "returned"
    /\ exited' = TRUE
    /\ UNCHANGED <<isShuttingDown, shutAwaits, signals>>
    /\ UNCHANGED <<orchOnlyVars, restVars>>

\* main: `while (!orchestrator.isShuttingDown)` fails after the sleep; the
\* finally block's shutdown() finds the flag set and returns.
MainLoopEnds ==
    /\ ~exited
    /\ tickPc = "sleep"
    /\ isShuttingDown
    /\ tickPc' = "returned"
    /\ UNCHANGED <<activeWorkers, inv, tickProfile, tickTask, claimCalls,
                   dailyStats, sourceLog>>
    /\ UNCHANGED <<shutVars, restVars>>

\* The main loop's steps while the process lives. The loop's condition is
\* read once per iteration, before tryClaimAndStartTask; the calls inside
\* tryClaimAndStartTask and startWorker do not read isShuttingDown. A call on
\* a closed MongoClient either throws (TickStoreError, HandleStoreError) or
\* is carried out by the driver.
MainTickSaturated == ~exited /\ ~isShuttingDown /\ TickSaturated
MainTickBegin     == ~exited /\ ~isShuttingDown /\ TickBegin
MainTickFindNone  == ~exited /\ TickFindNone
MainTickFindOne   == ~exited /\ TickFindOne
MainTickStamp     == ~exited /\ TickStamp
MainTickClaimNone == ~exited /\ TickClaimNone
MainTickClaim     == ~exited /\ claimCalls < MaxShutdownClaims /\ TickClaim
MainTickSave      == ~exited /\ TickSave
MainTickUpdate    == ~exited /\ TickUpdate
MainTickStartWorker == ~exited /\ TickStartWorker
MainTickStoreError  == ~exited /\ TickStoreError

\* The workers' continuations while the process lives.
LiveWorkerResolve(i)    == ~exited /\ WorkerResolve(i)
LiveHandleUpdate(i)     == ~exited /\ HandleUpdate(i)
LiveHandleStats(i)      == ~exited /\ HandleStats(i)
LiveHandleSource(i)     == ~exited /\ HandleSource(i)
LiveHandleStoreError(i) == ~exited /\ HandleStoreError(i)

----------------------------------------------------------------------------
(* TaskClient: claimTask, completeTask, reportTask, resetTask *)

NO_PENDING_TASKS == 180005
ErrorCodes == {0, NO_PENDING_TASKS, 500}

\* The `data` member of a response body: missing, null, or a TaskData object.
DataValues ==
    {[kind |-> "absent", id |-> None, prompt |-> None],
     [kind |-> "null", id |-> None, prompt |-> None]}
        \cup {[kind |-> "object", id |-> t, prompt |-> "a cat"] : t \in TaskIds}

\* What `await fetch(...)` and `await response.json()` give: fetch rejects,
\* the body is not JSON, the body is the JSON value null, or the body is an
\* object with error_code, message and data.
Responses(datas) ==
    {[kind |-> k, error_code |-> 0, data |-> [kind |-> "absent", id |-> None, prompt |-> None]] :
        k \in {"network failure", "not json", "json null"}}
        \cup {[kind |-> "json", error_code |-> e, data |-> d] : e \in ErrorCodes, d \in datas}

\* Responses to the PUT requests carry no task.
PutDatas == {d \in DataValues : d.kind # "object"}

\* The body of the try block runs to its return unless fetch or json()
\* rejects or `data` is null (data.error_code is then a TypeError).
BodyRuns(resp) == resp.kind = "json"

\* claimTask as it would be if it looked at `data` only.
ClaimTaskAnyCode(resp) ==
    [returned |-> IF BodyRuns(resp) /\ resp.data.kind = "object"
                  THEN [id |-> resp.data.id, prompt |-> resp.data.prompt]
                  ELSE NoTask,
     threw |-> FALSE]

\* claimTask: data.data when error_code === 0 and data.data is set, null for
\* the no-pending-tasks code, for every other code and in the catch.
ClaimTask(resp) ==
    [returned |-> IF BodyRuns(resp) /\ resp.error_code = 0 /\ resp.data.kind = "object"
                  THEN [id |-> resp.data.id, prompt |-> resp.data.prompt]
                  ELSE NoTask,
     threw |-> FALSE]

\* completeTask as it would be without its try/catch.
PutTaskNoCatch(resp) ==
    [returned |-> BodyRuns(resp) /\ resp.error_code = 0,
     threw |-> ~BodyRuns(resp)]

\* completeTask, reportTask, resetTask: true when error_code === 0, false
\* for every other code and in the catch.
PutTask(resp) ==
    [returned |-> BodyRuns(resp) /\ resp.error_code = 0,
     threw |-> FALSE]

InitClient == clientCall = <<>>

ClientClaimTask ==
    /\ \E productCode \in {"sora", "sora2"}, resp \in Responses(DataValues) :
          clientCall' = [op |-> "claimTask", args |-> <<productCode>>, response |-> resp,
                         outcome |-> ClaimTask(resp)]
    /\ UNCHANGED <<pstoreVars, statsVars, mapVars>>
    /\ UNCHANGED <<workerVars, storeVars, selVars, taskVars, orchVars, shutVars>>

ClientCompleteTask ==
    /\ \E taskId \in TaskIds, resultUrl \in {"https://x/1", "https://x/2"},
          resp \in Responses(PutDatas) :
          clientCall' = [op |-> "completeTask", args |-> <<taskId, resultUrl>>,
                         response |-> resp, outcome |-> PutTask(resp)]
    /\ UNCHANGED <<pstoreVars, statsVars, mapVars>>
    /\ UNCHANGED <<workerVars, storeVars, selVars, taskVars, orchVars, shutVars>>

ClientReportTask ==
    /\ \E taskId \in TaskIds, reason \in {"policy violation", "Task timeout after 25 minutes"},
          resp \in Responses(PutDatas) :
          clientCall' = [op |-> "reportTask", args |-> <<taskId, reason>>,
                         response |-> resp, outcome |-> PutTask(resp)]
    /\ UNCHANGED <<pstoreVars, statsVars, mapVars>>
    /\ UNCHANGED <<workerVars, storeVars, selVars, taskVars, orchVars, shutVars>>

ClientResetTask ==
    /\ \E taskId \in TaskIds, resp \in Responses(PutDatas) :
          clientCall' = [op |-> "resetTask", args |-> <<taskId>>,
                         response |-> resp, outcome |-> PutTask(resp)]
    /\ UNCHANGED <<pstoreVars, statsVars, mapVars>>
    /\ UNCHANGED <<workerVars, storeVars, selVars, taskVars, orchVars, shutVars>>

----------------------------------------------------------------------------
(* mapTimingToDuration and mapDimensionToOrientation *)

MaxTiming == 16

\* task.timing: absent, or a number.
NoTiming == [present |-> FALSE, value |-> 0]
Timings  == {NoTiming} \cup {[present |-> TRUE, value |-> n] : n \in (0 - 1)..MaxTiming}

\* task.dimension: absent, or a string.
Dimensions == {Absent, "", "9:16", "3:4", "16:9", "21:9", "4:3", "1:1", "16:10"}

\* `!timing`: undefined and 0 are falsy.  `!dimension`: undefined and "" are.
FalsyNumber(timing)    == ~timing.present \/ timing.value = 0
FalsyString(dimension) == dimension \in {Absent, ""}

mapDimensionToOrientation(dimension) ==
    IF FalsyString(dimension) THEN "portrait"
    ELSE IF dimension \in {"9:16", "3:4"} THEN "portrait"
    ELSE IF dimension \in {"16:9", "21:9", "4:3"} THEN "landscape"
    ELSE "portrait"

mapTimingToDuration(timing) ==
    IF FalsyNumber(timing) THEN 15
    ELSE IF timing.value <= 12 THEN 10
    ELSE 15

InitMap == mapCall = <<>>

\* startWorker maps the parameters of the task it was given.
MapTask ==
    /\ \E timing \in Timings, dimension \in Dimensions :
          mapCall' = [timing |-> timing, dimension |-> dimension,
                      duration |-> mapTimingToDuration(timing),
                      orientation |-> mapDimensionToOrientation(dimension)]
    /\ UNCHANGED <<clientVars, pstoreVars, statsVars>>
    /\ UNCHANGED <<workerVars, storeVars, selVars, taskVars, orchVars, shutVars>>

----------------------------------------------------------------------------
(* MongoProfileStore: ensureProfile and updateCredit *)

WORKER_CREDIT_THRESHOLD == 3

ProxyAddrs == {"x1", "x2"}
CreditReadings == {2, 3, 4}

\* No document of that name in `profiles`, no document of that proxy in `proxies`.
NoProfile == [exists |-> FALSE, machineId |-> None, proxy |-> None, status |-> None,
              creditRemaining |-> Null, lastCreditCheckAt |-> Null, updatedAt |-> Null,
              fingerprint |-> None, dailyRunCount |-> 0, lastRunAt |-> Null]
NoProxy   == [exists |-> FALSE, assignedProfile |-> None, addedAt |-> 0]

\* The record ensureProfile builds: bound to the proxy it found, on this
\* store's machine, active, credit not yet measured.
NewProfile(machine, proxy, now) ==
    [exists |-> TRUE, machineId |-> machine, proxy |-> proxy, status |-> "active",
     creditRemaining |-> Null, lastCreditCheckAt |-> Null, updatedAt |-> now,
     fingerprint |-> None, dailyRunCount |-> 0, lastRunAt |-> Null]

\* findOne({assignedProfile: null}, {sort: {addedAt: 1}}): an unassigned
\* proxy than which none was added earlier.
UnassignedProxies == {x \in ProxyAddrs : proxies[x].exists /\ proxies[x].assignedProfile = None}

AvailableProxies ==
    {x \in UnassignedProxies :
        \A y \in UnassignedProxies : proxies[x].addedAt <= proxies[y].addedAt}

IdleEnsure == [pc |-> "idle", name |-> None, proxy |-> None, outcome |-> "<no call>"]

\* The collections after connect() has seeded the proxies, with or without
\* a profile p1 that an earlier run created on this or on another machine.
InitProfileStore ==
    /\ \E owner \in MachineIds \cup {None}, two \in BOOLEAN, a1 \in {1, 2} :
          /\ profileDocs = [n \in ProfileNames |->
                IF n = "p1" /\ owner # None THEN NewProfile(owner, "x1", 1) ELSE NoProfile]
          /\ proxies = [x \in ProxyAddrs |->
                IF x = "x1"
                THEN [exists |-> TRUE, addedAt |-> a1,
                      assignedProfile |-> IF owner # None THEN "p1" ELSE None]
                ELSE IF two THEN [exists |-> TRUE, addedAt |-> 3 - a1, assignedProfile |-> None]
                ELSE NoProxy]
    /\ ensureCalls = [c \in CallerIds |-> IdleEnsure]

EnsureReturns(c, name, outcome) ==
    ensureCalls' = [ensureCalls EXCEPT ![c] = [pc |-> "idle", name |-> name, proxy |-> None,
                                               outcome |-> outcome]]

EnsureGoes(c, pc, name, proxy) ==
    ensureCalls' = [ensureCalls EXCEPT ![c] = [pc |-> pc, name |-> name, proxy |-> proxy,
                                               outcome |-> "<running>"]]

profileRest == <<workerVars, storeVars, selVars, tasksCollection, orchVars, shutVars,
                 clientVars, statsVars, mapVars>>

\* ensureProfile: findOne({name, machineId}); an existing profile of this
\* machine is returned.
EnsureFind(c) ==
    /\ ensureCalls[c].pc = "idle"
    /\ \E name \in ProfileNames :
          IF profileDocs[name].exists /\ profileDocs[name].machineId = MachineOf(c)
          THEN EnsureReturns(c, name, "existing")
          ELSE EnsureGoes(c, "other", name, None)
    /\ lastOp' = <<"ensureProfile", c>>
    /\ UNCHANGED <<profileDocs, proxies>>
    /\ UNCHANGED profileRest

\* ensureProfile of part_021: getProfile(name) is findOne({name}); an
\* existing profile of any machine is returned, there is no second lookup.
OldEnsureFind(c) ==
    /\ ensureCalls[c].pc = "idle"
    /\ \E name \in ProfileNames :
          IF profileDocs[name].exists
          THEN EnsureReturns(c, name, "existing")
          ELSE EnsureGoes(c, "proxy", name, None)
    /\ lastOp' = <<"ensureProfile", c>>
    /\ UNCHANGED <<profileDocs, proxies>>
    /\ UNCHANGED profileRest

\* ensureProfile: findOne({name}); a profile of another machine is a conflict.
EnsureCheckOther(c) ==
    /\ ensureCalls[c].pc = "other"
    /\ LET name == ensureCalls[c].name
       IN  IF profileDocs[name].exists /\ profileDocs[name].machineId # MachineOf(c)
           THEN EnsureReturns(c, name, "conflict")
           ELSE EnsureGoes(c, "proxy", name, None)
    /\ lastOp' = <<"ensureProfile", c>>
    /\ UNCHANGED <<profileDocs, proxies>>
    /\ UNCHANGED profileRest

\* ensureProfile: the findOne on `proxies`; without a result it throws.
EnsureFindProxy(c) ==
    /\ ensureCalls[c].pc = "proxy"
    /\ LET name == ensureCalls[c].name
       IN  IF AvailableProxies = {}
           THEN EnsureReturns(c, name, "no proxies")
           ELSE \E x \in AvailableProxies : EnsureGoes(c, "insert", name, x)
    /\ lastOp' = <<"ensureProfile", c>>
    /\ UNCHANGED <<profileDocs, proxies>>
    /\ UNCHANGED profileRest

\* ensureProfile: insertOne(record); the unique index on name rejects a
\* second document of the name.
EnsureInsert(c) ==
    /\ ensureCalls[c].pc = "insert"
    /\ LET name == ensureCalls[c].name
       IN  IF profileDocs[name].exists
           THEN /\ EnsureReturns(c, name, "duplicate key")
                /\ UNCHANGED profileDocs
           ELSE /\ EnsureGoes(c, "assign", name, ensureCalls[c].proxy)
                /\ profileDocs' = [profileDocs EXCEPT
                                     ![name] = NewProfile(MachineOf(c), ensureCalls[c].proxy, clock)]
    /\ lastOp' = <<"ensureProfile", c>>
    /\ UNCHANGED proxies
    /\ UNCHANGED profileRest

\* ensureProfile: updateOne({proxy}, {$set: {assignedProfile: name}}), return.
EnsureAssign(c) ==
    /\ ensureCalls[c].pc = "assign"
    /\ proxies' = [proxies EXCEPT ![ensureCalls[c].proxy].assignedProfile = ensureCalls[c].name]
    /\ EnsureReturns(c, ensureCalls[c].name, "created")
    /\ lastOp' = <<"ensureProfile", c>>
    /\ UNCHANGED profileDocs
    /\ UNCHANGED profileRest

\* A store call of ensureProfile rejects (the connection failed): the call throws.
EnsureStoreError(c) ==
    /\ ensureCalls[c].pc \in {"other", "proxy", "insert", "assign"}
    /\ EnsureReturns(c, ensureCalls[c].name, "store error")
    /\ lastOp' = <<"ensureProfile", c>>
    /\ UNCHANGED <<profileDocs, proxies>>
    /\ UNCHANGED profileRest

\* updateCredit with `>` in place of `>=`.
CreditStatusAbove(creditRemaining) ==
    IF creditRemaining > WORKER_CREDIT_THRESHOLD THEN "active" ELSE "low_credit"

\* updateCredit: const status = creditRemaining >= 3 ? 'active' : 'low_credit'.
CreditStatus(creditRemaining) ==
    IF creditRemaining >= WORKER_CREDIT_THRESHOLD THEN "active" ELSE "low_credit"

\* updateCredit: one updateOne({name, machineId}, {$set: {...}}); without a
\* matching document it changes nothing.
UpdateCredit(c) ==
    /\ \E name \in ProfileNames, creditRemaining \in CreditReadings :
          /\ profileDocs' =
                IF profileDocs[name].exists /\ profileDocs[name].machineId = MachineOf(c)
                THEN [profileDocs EXCEPT ![name].creditRemaining = creditRemaining,
                                         ![name].status = CreditStatus(creditRemaining),
                                         ![name].lastCreditCheckAt = clock,
                                         ![name].updatedAt = clock]
                ELSE profileDocs
          /\ lastOp' = <<"updateCredit", c, name, creditRemaining>>
    /\ UNCHANGED <<proxies, ensureCalls>>
    /\ UNCHANGED profileRest

----------------------------------------------------------------------------
(* MongoProfileStore: the profile mutators *)

MaxRunCount == 2
OLD_CREDIT_THRESHOLD == 5

Fingerprints      == {"f1", "f2"}
OldCreditReadings == {4, 5}

\* Two machines have used the store: p1 exists, p2 may, each on either machine.
InitMutatorStore ==
    /\ \E o1 \in MachineIds, o2 \in MachineIds \cup {None} :
          /\ profileDocs = [n \in ProfileNames |->
                IF n = "p1" THEN NewProfile(o1, "x1", 1)
                ELSE IF o2 # None THEN NewProfile(o2, "x2", 1) ELSE NoProfile]
          /\ proxies = [x \in ProxyAddrs |->
                IF x = "x1" THEN [exists |-> TRUE, addedAt |-> 1, assignedProfile |-> "p1"]
                ELSE [exists |-> TRUE, addedAt |-> 1,
                      assignedProfile |-> IF o2 # None THEN "p2" ELSE None]]
    /\ ensureCalls = [c \in CallerIds |-> IdleEnsure]

\* The documents the filter {name, machineId: this.options.machineId} matches.
OwnProfile(c, name) ==
    profileDocs[name].exists /\ profileDocs[name].machineId = MachineOf(c)

\* setFingerprint: updateOne({name, machineId}, {$set: {fingerprint, updatedAt}}).
SetFingerprint(c) ==
    /\ \E name \in ProfileNames, fingerprint \in Fingerprints :
          /\ profileDocs' =
                IF OwnProfile(c, name)
                THEN [profileDocs EXCEPT ![name].fingerprint = fingerprint,
                                         ![name].updatedAt = clock]
                ELSE profileDocs
          /\ lastOp' = <<"setFingerprint", c, name, fingerprint>>
    /\ UNCHANGED <<proxies, ensureCalls>>
    /\ UNCHANGED profileRest

\* incrementRunCount: updateOne({name, machineId},
\* {$set: {lastRunAt, updatedAt}, $inc: {dailyRunCount: 1}}).
IncrementRunCount(c) ==
    /\ \E name \in ProfileNames :
          /\ profileDocs[name].dailyRunCount < MaxRunCount
          /\ profileDocs' =
                IF OwnProfile(c, name)
                THEN [profileDocs EXCEPT ![name].lastRunAt = clock,
                                         ![name].updatedAt = clock,
                                         ![name].dailyRunCount = @ + 1]
                ELSE profileDocs
          /\ lastOp' = <<"incrementRunCount", c, name>>
    /\ UNCHANGED <<proxies, ensureCalls>>
    /\ UNCHANGED profileRest

\* resetDailyCounts: updateMany({machineId}, {$set: {dailyRunCount: 0}}).
ResetDailyCounts(c) ==
    /\ profileDocs' = [n \in ProfileNames |->
          IF OwnProfile(c, n) THEN [profileDocs[n] EXCEPT !.dailyRunCount = 0]
          ELSE profileDocs[n]]
    /\ lastOp' = <<"resetDailyCounts", c>>
    /\ UNCHANGED <<proxies, ensureCalls>>
    /\ UNCHANGED profileRest

\* part_021, setFingerprint: updateOne({name}, {$set: {fingerprint, updatedAt}}).
OldSetFingerprint(c) ==
    /\ \E name \in ProfileNames, fingerprint \in Fingerprints :
          /\ profileDocs' =
                IF profileDocs[name].exists
                THEN [profileDocs EXCEPT ![name].fingerprint = fingerprint,
                                         ![name].updatedAt = clock]
                ELSE profileDocs
          /\ lastOp' = <<"setFingerprint", c, name, fingerprint>>
    /\ UNCHANGED <<proxies, ensureCalls>>
    /\ UNCHANGED profileRest

\* part_021, updateCredit: status = creditRemaining >= 5 ? 'active' :
\* 'low_credit', then updateOne({name}, {$set: {...}}).
OldUpdateCredit(c) ==
    /\ \E name \in ProfileNames, creditRemaining \in OldCreditReadings :
          /\ profileDocs' =
                IF profileDocs[name].exists
                THEN [profileDocs EXCEPT
                        ![name].creditRemaining = creditRemaining,
                        ![name].status = IF creditRemaining >= OLD_CREDIT_THRESHOLD
                                         THEN "active" ELSE "low_credit",
                        ![name].lastCreditCheckAt = clock,
                        ![name].updatedAt = clock]
                ELSE profileDocs
          /\ lastOp' = <<"updateCredit", c, name, creditRemaining>>
    /\ UNCHANGED <<proxies, ensureCalls>>
    /\ UNCHANGED profileRest

\* part_021, incrementRunCount: updateOne({name}, {$set: ..., $inc: ...}).
OldIncrementRunCount(c) ==
    /\ \E name \in ProfileNames :
          /\ profileDocs[name].dailyRunCount < MaxRunCount
          /\ profileDocs' =
                IF profileDocs[name].exists
                THEN [profileDocs EXCEPT ![name].lastRunAt = clock,
                                         ![name].updatedAt = clock,
                                         ![name].dailyRunCount = @ + 1]
                ELSE profileDocs
          /\ lastOp' = <<"incrementRunCount", c, name>>
    /\ UNCHANGED <<proxies, ensureCalls>>
    /\ UNCHANGED profileRest

\* part_021, resetDailyCounts: updateMany({}, {$set: {dailyRunCount: 0}}).
OldResetDailyCounts(c) ==
    /\ profileDocs' = [n \in ProfileNames |->
          IF profileDocs[n].exists THEN [profileDocs[n] EXCEPT !.dailyRunCount = 0]
          ELSE profileDocs[n]]
    /\ lastOp' = <<"resetDailyCounts", c>>
    /\ UNCHANGED <<proxies, ensureCalls>>
    /\ UNCHANGED profileRest

----------------------------------------------------------------------------
(* TaskStore.incrementDailyStats, call by call and update by update *)

StatsMaxClock == 5
MaxStatsCalls == 3
DayLength     == 2
VideoCounts   == {1, 2}

\* new Date().toISOString().split('T')[0]: the calendar day the instant lies in.
DayOf(t) == t \div DayLength

Dates == {DayOf(t) : t \in 0..(StatsMaxClock + 1)}

\* The index of the first document of this date, 0 when there is none.
StatsIndex(coll, date) ==
    IF \E i \in DOMAIN coll : coll[i].date = date
    THEN CHOOSE i \in DOMAIN coll :
            coll[i].date = date /\ \A j \in DOMAIN coll : coll[j].date = date => i <= j
    ELSE 0

NewStats(date, now) ==
    [date |-> date, totalTasks |-> 0, completedTasks |-> 0, failedTasks |-> 0,
     totalVideos |-> 0, updatedAt |-> now]

\* An upsert that inserts whether or not a document of the date exists.
UpsertStatsAlways(coll, date, now) == Append(coll, NewStats(date, now))

\* updateOne({date}, {$setOnInsert: {...}}, {upsert: true}): inserts the zero
\* document when no document of the date exists and changes nothing otherwise.
UpsertStats(coll, date, now) ==
    IF StatsIndex(coll, date) = 0 THEN Append(coll, NewStats(date, now)) ELSE coll

\* Increments whose failed branch leaves totalTasks alone.
IncrementFieldsFailedUncounted(status, videoCount) ==
    IF status = "completed"
    THEN [totalTasks |-> 1, completedTasks |-> 1, failedTasks |-> 0, totalVideos |-> videoCount]
    ELSE [totalTasks |-> 0, completedTasks |-> 0, failedTasks |-> 1, totalVideos |-> 0]

\* The increments of one call: totalTasks, completedTasks, failedTasks, totalVideos.
IncrementFields(status, videoCount) ==
    IF status = "completed"
    THEN [totalTasks |-> 1, completedTasks |-> 1, failedTasks |-> 0, totalVideos |-> videoCount]
    ELSE [totalTasks |-> 1, completedTasks |-> 0, failedTasks |-> 1, totalVideos |-> 0]

\* updateOne({date}, {$inc: fields, $set: {updatedAt}}): the first document
\* of the date, when there is one.
IncStatsDoc(coll, date, fields, now) ==
    LET i == StatsIndex(coll, date)
    IN  IF i = 0 THEN coll
        ELSE [coll EXCEPT ![i].totalTasks     = @ + fields.totalTasks,
                          ![i].completedTasks = @ + fields.completedTasks,
                          ![i].failedTasks    = @ + fields.failedTasks,
                          ![i].totalVideos    = @ + fields.totalVideos,
                          ![i].updatedAt      = now]

IdleStatsCall == [pc |-> "idle", today |-> 0, now |-> 0, status |-> None, videoCount |-> 0]

InitStats ==
    /\ statsColl = <<>>
    /\ statsCalls = [c \in CallerIds |-> IdleStatsCall]
    /\ statsDone = [calls |-> 0, sums |-> [d \in Dates |-> ZeroStats]]

statsRest == <<workerVars, storeVars, selVars, taskVars, orchVars, shutVars,
               clientVars, pstoreVars, mapVars>>

\* The date of the second update: `today`, computed once when the call began.
IncDate(c) == statsCalls[c].today

\* incrementDailyStats up to its first await: today and now are read from
\* the clock, the upsert is sent and applied.
StatsUpsert(c) ==
    /\ statsCalls[c].pc = "idle"
    /\ statsDone.calls < MaxStatsCalls
    /\ \E status \in {"completed", "failed"}, videoCount \in VideoCounts :
          statsCalls' = [statsCalls EXCEPT ![c] =
              [pc |-> "inc", today |-> DayOf(clock), now |-> clock,
               status |-> status, videoCount |-> videoCount]]
    /\ statsColl' = UpsertStats(statsColl, DayOf(clock), clock)
    /\ statsDone' = [statsDone EXCEPT !.calls = @ + 1]
    /\ UNCHANGED clock
    /\ UNCHANGED statsRest

\* incrementDailyStats from its first await on: the $inc is applied, the call returns.
StatsInc(c) ==
    /\ statsCalls[c].pc = "inc"
    /\ LET fields == IncrementFields(statsCalls[c].status, statsCalls[c].videoCount)
           day    == statsCalls[c].today
       IN  /\ statsColl' = IncStatsDoc(statsColl, IncDate(c), fields, statsCalls[c].now)
           /\ statsDone' = [statsDone EXCEPT
                 !.sums[day] = [f \in DOMAIN ZeroStats |-> @[f] + fields[f]]]
    /\ statsCalls' = [statsCalls EXCEPT ![c] = IdleStatsCall]
    /\ UNCHANGED clock
    /\ UNCHANGED statsRest

\* The second updateOne rejects (the connection failed): the call throws.
StatsStoreError(c) ==
    /\ statsCalls[c].pc = "inc"
    /\ statsCalls' = [statsCalls EXCEPT ![c] = IdleStatsCall]
    /\ UNCHANGED <<statsColl, statsDone, clock>>
    /\ UNCHANGED statsRest

StatsTick ==
    /\ clock < StatsMaxClock
    /\ clock' = clock + 1
    /\ UNCHANGED statsVars
    /\ UNCHANGED <<workerVars, profiles, selVars, taskVars, orchVars, shutVars,
                   clientVars, pstoreVars, mapVars>>

----------------------------------------------------------------------------
(* Specifications *)

IdleSel ==
    /\ selPc = <<>> /\ selFound = <<>> /\ selExcl = <<>>
    /\ selRet = <<>> /\ selSaw = <<>> /\ selCount = <<>>

IdleTasks == tasksCollection = <<>> /\ lastOp = <<"none">>

\* Before any interrupt signal: both clients connected by initialize().
NoShutdown ==
    /\ isShuttingDown = FALSE
    /\ shutPc = "none"
    /\ shutAwaits = {}
    /\ connected = {"accountSelector", "taskStore"}
    /\ exited = FALSE
    /\ signals = 0

\* No TaskClient call, no profile-store call and no statistics call.
IdleMore ==
    /\ clientCall = <<>>
    /\ profileDocs = <<>> /\ proxies = <<>> /\ ensureCalls = <<>>
    /\ statsColl = <<>> /\ statsCalls = <<>> /\ statsDone = <<>>
    /\ mapCall = <<>>

IdleOrch ==
    /\ activeWorkers = <<>> /\ inv = <<>> /\ tickPc = "off"
    /\ tickProfile = None /\ tickTask = <<>> /\ claimCalls = 0
    /\ dailyStats = <<>> /\ sourceLog = <<>>
    /\ NoShutdown

InitWorker == InitWorkerOnly /\ profiles = <<>> /\ clock = 0
                 /\ IdleSel /\ IdleTasks /\ IdleOrch /\ IdleMore

InitStoreSpec == InitTasksOnly /\ profiles = <<>> /\ clock = 2
                 /\ IdleSel /\ IdleWorker /\ IdleOrch /\ IdleMore

NextStore ==
    \/ StoreSaveTask
    \/ StoreUpdateTaskStatus
    \/ StoreClockTick

SpecStore == InitStoreSpec /\ [][NextStore]_vars

Init == InitOrchOnly /\ InitOrchStore /\ IdleWorker /\ IdleSel /\ IdleTasks /\ NoShutdown
            /\ IdleMore

Next ==
    \/ TickSaturated
    \/ TickBegin
    \/ TickFindNone
    \/ TickFindOne
    \/ TickStamp
    \/ TickClaimNone
    \/ TickClaim
    \/ TickSave
    \/ TickUpdate
    \/ TickStartWorker
    \/ TickStoreError
    \/ \E i \in InvIds :
          \/ WorkerResolve(i)
          \/ HandleUpdate(i)
          \/ HandleStats(i)
          \/ HandleSource(i)
          \/ HandleStoreError(i)

Spec == Init /\ [][Next]_vars

\* The scheduler loop while the task source hands out MaxFairClaims tasks.
FairTickClaim == claimCalls < MaxFairClaims /\ TickClaim

NextFair ==
    \/ TickSaturated
    \/ TickBegin
    \/ TickFindNone
    \/ TickFindOne
    \/ TickStamp
    \/ TickClaimNone
    \/ FairTickClaim
    \/ TickSave
    \/ TickUpdate
    \/ TickStartWorker
    \/ TickStoreError
    \/ \E i \in InvIds :
          \/ WorkerResolve(i)
          \/ HandleUpdate(i)
          \/ HandleStats(i)
          \/ HandleSource(i)
          \/ HandleStoreError(i)

\* runWorker's promise settles: at the latest its armed timer fires and
\* resolves it, and the event loop then runs the continuation.
FairSpec == Init /\ [][NextFair]_vars /\ \A i \in InvIds : WF_vars(WorkerResolve(i))

InitSeq == InitProcessTask /\ InitOrchStore /\ IdleWorker /\ IdleSel /\ IdleTasks
               /\ NoShutdown /\ IdleMore

NextSeq ==
    \/ ProcessBegin
    \/ ProcessClaimNone
    \/ ProcessClaim
    \/ ProcessSave
    \/ ProcessFindNone
    \/ ProcessSelect
    \/ ProcessNoProfile
    \/ ProcessUpdate
    \/ ProcessRunWorker
    \/ ProcessReconcile
    \/ ProcessStats
    \/ ProcessSource
    \/ ProcessStoreError

SpecSeq == InitSeq /\ [][NextSeq]_vars

InitShutdown == Init

NextShutdown ==
    \/ OnSignal
    \/ ShutdownAllSettled
    \/ ShutdownDisconnectSelector
    \/ ShutdownDisconnectStore
    \/ MainLoopEnds
    \/ MainTickSaturated
    \/ MainTickBegin
    \/ MainTickFindNone
    \/ MainTickFindOne
    \/ MainTickStamp
    \/ MainTickClaimNone
    \/ MainTickClaim
    \/ MainTickSave
    \/ MainTickUpdate
    \/ MainTickStartWorker
    \/ MainTickStoreError
    \/ \E i \in InvIds :
          \/ LiveWorkerResolve(i)
          \/ LiveHandleUpdate(i)
          \/ LiveHandleStats(i)
          \/ LiveHandleSource(i)
          \/ LiveHandleStoreError(i)

SpecShutdown == InitShutdown /\ [][NextShutdown]_vars

NextDist ==
    \/ OnStdout
    \/ OnStderr
    \/ OnError
    \/ DistOnExit
    \/ OnTimeout

SpecDist == InitWorker /\ [][NextDist]_vars

NextWorker ==
    \/ OnStdout
    \/ OnStderr
    \/ OnError
    \/ OnExit
    \/ OnTimeout

SpecWorker == InitWorker /\ [][NextWorker]_vars

\* Node's event loop runs an armed timer's callback once it is due.
FairWorker == InitWorker /\ [][NextWorker]_vars /\ WF_vars(OnTimeout)

InitSel == InitSelOnly /\ InitStore /\ IdleWorker /\ IdleTasks /\ IdleOrch /\ IdleMore

NextSel ==
    \E c \in CallerIds :
        \/ SelFindNone(c)
        \/ SelFindOne(c)
        \/ SelStamp(c)

SpecSel == InitSel /\ [][NextSel]_vars

IdleProfileStore == profileDocs = <<>> /\ proxies = <<>> /\ ensureCalls = <<>>
IdleStats == statsColl = <<>> /\ statsCalls = <<>> /\ statsDone = <<>>
IdleMap == mapCall = <<>>

InitClientSpec ==
    /\ InitClient /\ IdleProfileStore /\ IdleStats /\ IdleMap
    /\ profiles = <<>> /\ clock = 0
    /\ IdleWorker /\ IdleSel /\ IdleTasks /\ IdleOrch

NextClient ==
    \/ ClientClaimTask
    \/ ClientCompleteTask
    \/ ClientReportTask
    \/ ClientResetTask

SpecClient == InitClientSpec /\ [][NextClient]_vars

InitMapSpec ==
    /\ InitMap /\ InitClient /\ IdleProfileStore /\ IdleStats
    /\ profiles = <<>> /\ clock = 0
    /\ IdleWorker /\ IdleSel /\ IdleTasks /\ IdleOrch

NextMap == MapTask

SpecMap == InitMapSpec /\ [][NextMap]_vars

InitProfiles ==
    /\ InitProfileStore /\ InitClient /\ IdleStats /\ IdleMap
    /\ profiles = <<>> /\ clock = 2
    /\ IdleWorker /\ IdleSel /\ IdleTasks /\ IdleOrch

NextProfiles ==
    \E c \in CallerIds :
        \/ EnsureFind(c)
        \/ EnsureCheckOther(c)
        \/ EnsureFindProxy(c)
        \/ EnsureInsert(c)
        \/ EnsureAssign(c)
        \/ EnsureStoreError(c)
        \/ UpdateCredit(c)

SpecProfiles == InitProfiles /\ [][NextProfiles]_vars

NextOldProfiles ==
    \E c \in CallerIds :
        \/ OldEnsureFind(c)
        \/ EnsureFindProxy(c)
        \/ EnsureInsert(c)
        \/ EnsureAssign(c)
        \/ EnsureStoreError(c)

\* part_021 makes the index on assignedProfile unique: of the proxies whose
\* assignedProfile is null the collection holds at most one.
InitOldProfiles == InitProfiles /\ Cardinality(UnassignedProxies) <= 1

SpecOldProfiles == InitOldProfiles /\ [][NextOldProfiles]_vars

InitMutators ==
    /\ InitMutatorStore /\ InitClient /\ IdleStats /\ IdleMap
    /\ profiles = <<>> /\ clock = 2
    /\ IdleWorker /\ IdleSel /\ IdleTasks /\ IdleOrch

NextMutators ==
    \E c \in CallerIds :
        \/ SetFingerprint(c)
        \/ UpdateCredit(c)
        \/ IncrementRunCount(c)
        \/ ResetDailyCounts(c)

SpecMutators == InitMutators /\ [][NextMutators]_vars

NextOldMutators ==
    \E c \in CallerIds :
        \/ OldSetFingerprint(c)
        \/ OldUpdateCredit(c)
        \/ OldIncrementRunCount(c)
        \/ OldResetDailyCounts(c)

SpecOldMutators == InitMutators /\ [][NextOldMutators]_vars

InitStatsSpec ==
    /\ InitStats /\ InitClient /\ IdleProfileStore /\ IdleMap
    /\ profiles = <<>> /\ clock = 2
    /\ IdleWorker /\ IdleSel /\ IdleTasks /\ IdleOrch

NextStats ==
    \/ StatsTick
    \/ \E c \in CallerIds :
          \/ StatsUpsert(c)
          \/ StatsInc(c)
          \/ StatsStoreError(c)

SpecStats == InitStatsSpec /\ [][NextStats]_vars

NextOrchSel ==
    \E c \in CallerIds :
        \/ OrchSelectNone(c)
        \/ OrchSelect(c)

SpecOrchSel == InitSel /\ [][NextOrchSel]_vars

----------------------------------------------------------------------------
(* Claims about WorkerRunner.runWorker *)

\* C8: when the executor never exits on its own, the timeout fires, the child
\* is sent the kill signal and runWorker resolves with success = false and
\* an error that mentions "timeout"; in every run the promise is resolved.
C8_TimeoutResolves ==
    /\ <>(promise = "resolved")
    /\ <>(\/ firstEvent \in {"exit", "error"}
          \/ /\ timer = "fired" /\ killed /\ promise = "resolved"
             /\ result.success = FALSE /\ Includes(result.error, "timeout"))
    /\ [](timer = "fired" =>
             /\ killed /\ promise = "resolved"
             /\ result.success = FALSE /\ Includes(result.error, "timeout"))

C8_Witness ==
    /\ timer = "fired" /\ proc = "running" /\ killed
    /\ promise = "resolved" /\ result = TimeoutResult

\* C9: the result is the one of whichever of timeout and exit came first; the
\* later event neither gives a second result nor changes the first, and
\* the timer never fires once the exit has been handled.
C9_FirstEventWins ==
    /\ [](firstEvent = "timeout" => promise = "resolved" /\ result = TimeoutResult)
    /\ [](firstEvent = "exit" =>
             promise = "resolved" /\ timer # "fired" /\ result # TimeoutResult)
    /\ [][promise = "resolved" => promise' = "resolved" /\ result' = result]_vars

C9_Witness ==
    /\ firstEvent = "timeout" /\ proc = "exited"
    /\ promise = "resolved" /\ result = TimeoutResult

StatusLines(lines) ==
    {i \in 1..Len(lines) :
        JSONparse(lines[i]).kind = "object" /\ JSONparse(lines[i]).success # Absent}

\* The error-shaped lines: an object with an `error` or with success false.
ErrorLines(lines) ==
    {i \in 1..Len(lines) :
        /\ JSONparse(lines[i]).kind = "object"
        /\ (JSONparse(lines[i]).error # Absent \/ JSONparse(lines[i]).success = "false")}

Last(S) == CHOOSE i \in S : \A j \in S : j <= i

\* C11: after an exit with code 0 the result is decided by the last stdout
\* line that is an object with a `success` field: success with its publicUrl
\* when it has success true and a publicUrl, else the "no valid result"
\* failure; earlier JSON lines and diagnostic lines do not matter.
C11_LastStatusLineWins ==
    (firstEvent = "exit" /\ exitEvent # <<>> /\ exitEvent[1] = 0)
    => result =
         IF StatusLines(stdout) = {} THEN NoValidResult
         ELSE LET p == JSONparse(stdout[Last(StatusLines(stdout))])
              IN  IF p.success = "true" /\ p.publicUrl # Absent
                  THEN [success |-> TRUE, publicUrl |-> p.publicUrl, error |-> Absent]
                  ELSE NoValidResult

\* C12: after an exit with a non-zero code the result is success = false
\* with the error of the last error-shaped line of stdout followed by stderr,
\* and the generic exit message when no line gives an error.
C12_LastErrorLineWins ==
    (firstEvent = "exit" /\ exitEvent # <<>> /\ exitEvent[1] # 0)
    => LET lines == stdout \o stderr
           msg == IF ErrorLines(lines) # {}
                     /\ JSONparse(lines[Last(ErrorLines(lines))]).error # Absent
                  THEN JSONparse(lines[Last(ErrorLines(lines))]).error
                  ELSE ExitMessage(exitEvent[1], exitEvent[2])
       IN  result = [success |-> FALSE, publicUrl |-> Absent, error |-> msg]

\* C39: once the worker process has exited with a non-zero code (or with
\* none, ended by a signal) the WorkerResult is a failure, whatever stdout
\* and stderr hold, and the status handleWorkerComplete derives from it is
\* not completed.
C39_NonZeroExitNeverSucceeds ==
    (exitEvent # <<>> /\ exitEvent[1] # 0)
    => /\ promise = "resolved"
       /\ result.success = FALSE
       /\ result.publicUrl = Absent
       /\ (IF Succeeded(result) THEN "completed" ELSE FailureStatus(result)) # "completed"

\* The process printed a success line with a publicUrl and then exited with
\* code 1; the exit came first and its result is a failure.
C39_Witness ==
    /\ firstEvent = "exit" /\ exitEvent = <<1, Absent>>
    /\ \E k \in DOMAIN stdout : stdout[k] = LineOk1
    /\ promise = "resolved" /\ result.success = FALSE

----------------------------------------------------------------------------
(* Claims about AccountSelector.selectAvailableProfile *)

\* C3: with exactly one eligible profile in the store, at most one of the
\* selectAvailableProfile calls that are in flight together is given that
\* profile (a call that has read a profile goes on to return it).
C3_AtMostOneCallReturns ==
    \A n \in ProfileNames :
        EligibleSet("m1", {}) = {n}
        => Cardinality({c \in CallerIds : selPc[c] = "stamp" /\ selFound[c] = n}) <= 1

\* C4: with exactly one eligible profile, a call that begins after that
\* profile has been returned returns none.
C4_LaterCallsReturnNone ==
    \A c \in CallerIds, n \in ProfileNames :
        (EligibleSet("m1", {}) = {n} /\ MachineOf(c) = "m1" /\ n \in selSaw[c]
            /\ selPc[c] = "idle")
        => selRet[c] # n

\* C5: the read of the profile and the stamp of lastRunAt are one atomic
\* store step: while a call is between its findOne and its updateOne, the
\* next store step is that call's updateOne.
C5_ReadAndStampAtomic ==
    [][\A c \in CallerIds : selPc[c] = "stamp" => selPc'[c] = "idle"]_vars

\* C24: the profile a call found and returns has status active, no known
\* creditRemaining below the threshold, a name outside the call's exclusion
\* set and the caller's machine identifier; in particular no call finds a
\* profile when every profile has status low_credit.
C24_ReturnedProfileEligible ==
    \A c \in CallerIds :
        selFound[c] \in ProfileNames
        => LET doc == profiles[selFound[c]]
           IN  /\ doc.status = "active"
               /\ ~(doc.creditRemaining # Null /\ doc.creditRemaining < CREDIT_THRESHOLD)
               /\ selFound[c] \notin selExcl[c]
               /\ doc.machineId = MachineOf(c)

\* The profile is one the caller's query accepts.
EligibleFor(c, n, excl) ==
    /\ profiles[n].machineId = MachineOf(c)
    /\ profiles[n].status = "active"
    /\ ~(profiles[n].creditRemaining # Null /\ profiles[n].creditRemaining < CREDIT_THRESHOLD)
    /\ n \notin excl

\* a is an earlier lastRunAt than b: never-run (null) before every timestamp.
EarlierRun(a, b) == (a = Null /\ b # Null) \/ (a # Null /\ b # Null /\ a < b)

\* C25: when a call's query finds a profile, no profile eligible for that
\* call has an earlier lastRunAt, a never-run profile counting as earlier
\* than every profile that has run.
C25_OldestEligibleFirst ==
    [][\A c \in CallerIds :
          (selPc[c] = "idle" /\ selPc'[c] = "stamp")
          => /\ selFound'[c] \in ProfileNames
             /\ EligibleFor(c, selFound'[c], selExcl'[c])
             /\ \A m \in ProfileNames :
                   EligibleFor(c, m, selExcl'[c])
                   => ~EarlierRun(profiles[m].lastRunAt, profiles[selFound'[c]].lastRunAt)]_vars

\* The never-run p2 was returned although p1, which had run, was eligible.
C25_Witness ==
    /\ \E c \in CallerIds : selRet[c] = "p2" /\ EligibleFor(c, "p1", selExcl[c])
    /\ profiles["p1"].lastRunAt = 1
    /\ selCount = [n \in ProfileNames |-> IF n = "p2" THEN 1 ELSE 0]

----------------------------------------------------------------------------
(* Claims about TaskStore *)

RecordsOf(id) == {i \in DOMAIN tasksCollection : tasksCollection[i].taskId = id}

\* C7: however often saveTask is called for a task id, also after
\* updateTaskStatus has changed the record, the store holds one record for
\* the id and a saveTask for an id that has a record changes nothing.
C7_SaveTaskFirstWriteWins ==
    /\ [](\A id \in TaskIds : Cardinality(RecordsOf(id)) <= 1)
    /\ [][\A id \in TaskIds :
            (lastOp'[1] = "saveTask" /\ lastOp'[2] = id /\ RecordsOf(id) # {})
            => tasksCollection' = tasksCollection]_vars

C7_Witness ==
    /\ lastOp = <<"saveTask", "t1", "a dog">>
    /\ Cardinality(RecordsOf("t1")) = 1
    /\ \E i \in RecordsOf("t1") :
          /\ tasksCollection[i].prompt = "a cat"
          /\ tasksCollection[i].status = "completed"
          /\ tasksCollection[i].claimedAt < clock

\* C28: updateTaskStatus stores the status and the supplied fields, leaves
\* the other fields of the record alone apart from updatedAt, and stores as
\* startedAt (for processing) and completedAt (for completed, failed and
\* timeout) the caller's timestamp when one was supplied and the time of the
\* call otherwise.
C28_StampsOnlyWhenNotSupplied ==
    [][(lastOp'[1] = "updateTaskStatus" /\ RecordsOf(lastOp'[2]) # {})
         => LET id == lastOp'[2]
                status == lastOp'[3]
                updates == lastOp'[4]
                old == tasksCollection[FindTask(tasksCollection, id)]
                new == tasksCollection'[FindTask(tasksCollection, id)]
                Given(f) == f \in DOMAIN updates
                Stored(f) == new[f] = IF Given(f) THEN updates[f] ELSE clock
            IN  /\ new.status = status
                /\ new.updatedAt = clock
                /\ \A f \in DOMAIN updates : new[f] = updates[f]
                /\ status = "processing" => Stored("startedAt")
                /\ status \in {"completed", "failed", "timeout"} => Stored("completedAt")
                /\ \A f \in DOMAIN old \ (DOMAIN updates \cup {"status", "updatedAt"}) :
                      \/ new[f] = old[f]
                      \/ f = "startedAt" /\ status = "processing"
                      \/ f = "completedAt" /\ status \in {"completed", "failed", "timeout"}]_vars

----------------------------------------------------------------------------
(* Claims about TaskClient *)

\* C22: claimTask returns a task exactly when the response is a JSON object
\* with error_code 0 and a data object, and then returns that object; the
\* no-pending-tasks code, every other code, a missing or null data, a body
\* that is not JSON or is null, and a failed request all give none.
C22_ClaimTaskReturnsTaskIffOk ==
    (clientCall # <<>> /\ clientCall.op = "claimTask")
    => LET resp == clientCall.response
           ok == resp.kind = "json" /\ resp.error_code = 0 /\ resp.data.kind = "object"
       IN  /\ (clientCall.outcome.returned # NoTask) <=> ok
           /\ ok => clientCall.outcome.returned = [id |-> resp.data.id, prompt |-> resp.data.prompt]
           /\ ~clientCall.outcome.threw

\* claimTask has returned the task of an error_code 0 response.
C22_Witness ==
    /\ clientCall # <<>> /\ clientCall.op = "claimTask"
    /\ clientCall.response.kind = "json" /\ clientCall.response.error_code = 0
    /\ clientCall.outcome.returned = [id |-> "t2", prompt |-> "a cat"]

\* C23: no TaskClient call throws; completeTask and reportTask return true
\* exactly when the response is a JSON object with error_code 0.
C23_ClientNeverThrows ==
    clientCall # <<>>
    => /\ ~clientCall.outcome.threw
       /\ clientCall.op \in {"completeTask", "reportTask"}
            => (clientCall.outcome.returned = TRUE
                  <=> (clientCall.response.kind = "json" /\ clientCall.response.error_code = 0))

\* reportTask has returned false for a failed request.
C23_Witness ==
    /\ clientCall # <<>> /\ clientCall.op = "reportTask"
    /\ clientCall.response.kind = "network failure"
    /\ clientCall.outcome.returned = FALSE
    /\ ~clientCall.outcome.threw

----------------------------------------------------------------------------
(* Claims about the task parameter mapping *)

\* C34: mapTimingToDuration returns 10 or 15: 15 when timing is absent, 10
\* for a timing <= 12 and 15 for a timing above 12; mapDimensionToOrientation
\* returns portrait or landscape: landscape exactly for 16:9, 21:9 and 4:3.
C34_DurationAndOrientation ==
    mapCall # <<>> =>
        /\ mapCall.duration \in {10, 15}
        /\ mapCall.duration =
              IF ~mapCall.timing.present THEN 15
              ELSE IF mapCall.timing.value <= 12 THEN 10 ELSE 15
        /\ mapCall.orientation \in {"portrait", "landscape"}
        /\ mapCall.orientation = "landscape" <=> mapCall.dimension \in {"16:9", "21:9", "4:3"}

----------------------------------------------------------------------------
(* Claims about MongoProfileStore *)

\* A step of caller c's ensureProfile call.
EnsureStep(c) == ensureCalls'[c] # ensureCalls[c]

ForeignProfile(c, name) ==
    profileDocs[name].exists /\ profileDocs[name].machineId # MachineOf(c)

\* C26: ensureProfile is idempotent.  A call for a name that exists on the
\* local machine returns the existing profile and changes no profile and no
\* proxy; a call for an absent name binds the profile it creates to an
\* unassigned proxy with the oldest addedAt and marks that proxy; a call that
\* finds no unassigned proxy fails and creates nothing; a call for a name
\* that exists under a different machine fails with a conflict and changes
\* nothing.
C26_EnsureProfileIdempotent ==
    [][\A c \in CallerIds :
          EnsureStep(c) =>
            LET name == ensureCalls'[c].name
                out  == ensureCalls'[c].outcome
            IN  /\ out = "existing" =>
                      /\ profileDocs[name].exists
                      /\ profileDocs[name].machineId = MachineOf(c)
                      /\ UNCHANGED <<profileDocs, proxies>>
                /\ ensureCalls[c].pc = "idle" /\ profileDocs[name].exists
                      /\ profileDocs[name].machineId = MachineOf(c)
                      => out = "existing"
                /\ ensureCalls'[c].pc = "insert" =>
                      /\ ensureCalls'[c].proxy \in UnassignedProxies
                      /\ \A y \in UnassignedProxies :
                            proxies[ensureCalls'[c].proxy].addedAt <= proxies[y].addedAt
                /\ profileDocs' # profileDocs =>
                      /\ ~profileDocs[name].exists
                      /\ profileDocs' = [profileDocs EXCEPT
                            ![name] = NewProfile(MachineOf(c), ensureCalls[c].proxy, clock)]
                /\ out = "created" =>
                      /\ profileDocs[name].proxy = ensureCalls[c].proxy
                      /\ proxies'[ensureCalls[c].proxy].assignedProfile = name
                /\ ensureCalls[c].pc = "proxy" /\ UnassignedProxies = {} =>
                      /\ out \in {"no proxies", "store error"}
                      /\ UNCHANGED <<profileDocs, proxies>>
                /\ ForeignProfile(c, name) =>
                      /\ out \in {"conflict", "store error", "duplicate key", "<running>"}
                      /\ ensureCalls[c].pc = "other" => out \in {"conflict", "store error"}
                      /\ UNCHANGED <<profileDocs, proxies>>]_vars

\* C27: after any interleaving of ensureProfile calls no two profiles are
\* bound to the same proxy, and a proxy that is assigned to a profile is
\* never assigned to another one.
C27_ProxyBoundToOneProfile ==
    /\ [](\A n1, n2 \in ProfileNames :
            profileDocs[n1].exists /\ profileDocs[n2].exists /\ n1 # n2
            => profileDocs[n1].proxy # profileDocs[n2].proxy)
    /\ [][\A x \in ProxyAddrs :
            proxies[x].assignedProfile # None
            => proxies'[x].assignedProfile = proxies[x].assignedProfile]_vars

\* The step is updateCredit(name, remaining) of caller c, and the profile
\* of that name belongs to the caller's machine.
CreditUpdated(c, name, remaining) ==
    /\ lastOp' = <<"updateCredit", c, name, remaining>>
    /\ profileDocs[name].exists
    /\ profileDocs[name].machineId = MachineOf(c)

\* C30 (as stated): updateCredit(name, remaining) sets creditRemaining to the
\* given value, stamps lastCreditCheckAt, and sets status to active when
\* remaining is above the threshold and to low_credit otherwise.
C30_ActiveAboveThreshold ==
    [][\A c \in CallerIds, name \in ProfileNames, remaining \in CreditReadings :
          CreditUpdated(c, name, remaining) =>
            /\ profileDocs'[name].creditRemaining = remaining
            /\ profileDocs'[name].lastCreditCheckAt = clock
            /\ profileDocs'[name].status =
                  IF remaining > WORKER_CREDIT_THRESHOLD THEN "active" ELSE "low_credit"]_vars

\* C30 (amended): updateCredit(name, remaining) on a profile of the local
\* machine sets creditRemaining to the given value, stamps lastCreditCheckAt,
\* and sets status to active when remaining is at or above the threshold and
\* to low_credit otherwise; nothing else of the profile but updatedAt changes.
C30_ActiveAtOrAboveThreshold ==
    [][\A c \in CallerIds, name \in ProfileNames, remaining \in CreditReadings :
          CreditUpdated(c, name, remaining) =>
            profileDocs' = [profileDocs EXCEPT
                ![name].creditRemaining = remaining,
                ![name].lastCreditCheckAt = clock,
                ![name].updatedAt = clock,
                ![name].status =
                    IF remaining >= WORKER_CREDIT_THRESHOLD THEN "active" ELSE "low_credit"]]_vars

\* A reading equal to the threshold was stored and left the profile active.
C30_Witness ==
    /\ lastOp = <<"updateCredit", 1, "p1", WORKER_CREDIT_THRESHOLD>>
    /\ profileDocs["p1"].exists /\ profileDocs["p1"].machineId = MachineOf(1)
    /\ profileDocs["p1"].creditRemaining = WORKER_CREDIT_THRESHOLD
    /\ profileDocs["p1"].lastCreditCheckAt = clock
    /\ profileDocs["p1"].status = "active"

\* C31: setFingerprint, updateCredit, incrementRunCount and
\* resetDailyCounts, called from a store instance of one machine, leave every
\* profile owned by a different machine identifier unchanged.
C31_OtherMachinesProfilesUnchanged ==
    [][\A n \in ProfileNames :
          profileDocs[n].exists /\ profileDocs[n].machineId # MachineOf(lastOp'[2])
          => profileDocs'[n] = profileDocs[n]]_vars

----------------------------------------------------------------------------
(* Claims about incrementDailyStats *)

StatsOfDate(date) == {i \in DOMAIN statsColl : statsColl[i].date = date}

\* C29: after any sequence and interleaving of incrementDailyStats calls
\* there is at most one daily-stats record per date, it exists from the first
\* increment of the day on, it is created with zero counters, and its
\* counters are the sums of the increments of the calls that returned: 1 to
\* totalTasks and to completedTasks or failedTasks per call, and videoCount
\* to totalVideos per completed call.
C29_OneRecordPerDayNoIncrementLost ==
    /\ [](\A d \in Dates :
            /\ Cardinality(StatsOfDate(d)) <= 1
            /\ (\E c \in CallerIds : statsCalls[c].pc = "inc" /\ statsCalls[c].today = d)
                   => StatsOfDate(d) # {}
            /\ IF StatsOfDate(d) = {}
               THEN statsDone.sums[d] = ZeroStats
               ELSE \A i \in StatsOfDate(d) :
                       [f \in DOMAIN ZeroStats |-> statsColl[i][f]] = statsDone.sums[d])
    /\ [][\A d \in Dates :
            StatsOfDate(d) = {} /\ StatsOfDate(d)' # {}
            => /\ d = DayOf(clock)
               /\ Len(statsColl') = Len(statsColl) + 1
               /\ statsColl'[Len(statsColl')] = NewStats(d, clock)]_vars

\* Two days have one record each; the first day's record holds a completed
\* call with two videos and a failed call.
C29_Witness ==
    /\ Len(statsColl) = 2
    /\ statsColl[1].date # statsColl[2].date
    /\ statsColl[1].totalTasks = 2 /\ statsColl[1].completedTasks = 1
    /\ statsColl[1].failedTasks = 1 /\ statsColl[1].totalVideos = 2
    /\ statsColl[2].totalTasks = 1
    /\ \A c \in CallerIds : statsCalls[c].pc = "idle"

\* C40: in every daily-stats record, after any sequence and interleaving of
\* incrementDailyStats calls, totalTasks = completedTasks + failedTasks, the
\* four counters are non-negative, and no step removes a record or lowers one
\* of its counters.
C40_TotalIsCompletedPlusFailed ==
    /\ [](\A i \in DOMAIN statsColl :
            /\ statsColl[i].totalTasks = statsColl[i].completedTasks + statsColl[i].failedTasks
            /\ \A f \in DOMAIN ZeroStats : statsColl[i][f] >= 0)
    /\ [][\A i \in DOMAIN statsColl :
            /\ i \in DOMAIN statsColl'
            /\ statsColl'[i].date = statsColl[i].date
            /\ \A f \in DOMAIN ZeroStats : statsColl'[i][f] >= statsColl[i][f]]_vars

\* One record holds three returned calls: two completed ones with three
\* videos between them and a failed one.
C40_Witness ==
    /\ Len(statsColl) = 1
    /\ statsColl[1].totalTasks = 3 /\ statsColl[1].completedTasks = 2
    /\ statsColl[1].failedTasks = 1 /\ statsColl[1].totalVideos = 3

----------------------------------------------------------------------------
(* Claims about the Orchestrator *)

\* C1: the number of runWorker invocations that have been started and have
\* not yet resolved never exceeds MAX_CONCURRENT_WORKERS.
C1_ConcurrencyBound == Cardinality(Running) <= MAX_CONCURRENT_WORKERS

\* C2: a task is claimed from the task source only at the point of a tick
\* where selectAvailableProfile has already returned a profile in that tick.
C2_ClaimOnlyWithProfile ==
    [][claimCalls' # claimCalls => tickPc = "claim" /\ tickProfile \in ProfileNames]_vars

\* The stored record of a task that has one.
RecordOf(id) == tasksCollection[FindTask(tasksCollection, id)]

\* Today's counters, all zero while the document does not exist.
StatsNow == IF dailyStats = <<>> THEN ZeroStats ELSE dailyStats[1]

\* C13: for a worker that resolved with success and a publicUrl the
\* reconciliation first writes status completed with that publicUrl, then
\* adds 1 to completedTasks and to totalVideos of today's stats, then calls
\* completeTask on the task source; no step is taken out of this order.
C13_SuccessReconciled ==
    [][\A i \in InvIds :
          (inv[i].state = "resolved" /\ Succeeded(inv[i].result)
              /\ inv[i].hpc \in {"update", "stats", "source"} /\ inv'[i] # inv[i])
          => /\ inv[i].hpc = "update" =>
                  \/ inv'[i].hpc = "done" /\ sourceLog' = sourceLog /\ dailyStats' = dailyStats
                  \/ /\ inv'[i].hpc = "stats"
                     /\ RecordOf(inv[i].taskId)'.status = "completed"
                     /\ RecordOf(inv[i].taskId)'.publicUrl = inv[i].result.publicUrl
                     /\ sourceLog' = sourceLog /\ dailyStats' = dailyStats
             /\ inv[i].hpc = "stats" =>
                  \/ inv'[i].hpc = "done" /\ sourceLog' = sourceLog /\ dailyStats' = dailyStats
                  \/ /\ inv'[i].hpc = "source"
                     /\ StatsNow'.completedTasks = StatsNow.completedTasks + 1
                     /\ StatsNow'.totalVideos = StatsNow.totalVideos + 1
                     /\ StatsNow'.failedTasks = StatsNow.failedTasks
                     /\ sourceLog' = sourceLog
             /\ inv[i].hpc = "source" =>
                  /\ inv'[i].hpc = "done"
                  /\ sourceLog' \in {SourceTold(sourceLog, inv[i].taskId, "completed", d) :
                                        d \in BOOLEAN}
                  /\ dailyStats' = dailyStats]_vars

C13_Witness ==
    /\ \E i \in InvIds : inv[i] = DoneInv
    /\ StatusOf(tasksCollection, "t1") = "completed"
    /\ RecordOf("t1").publicUrl = "https://x/1"
    /\ dailyStats # <<>> /\ dailyStats[1].completedTasks = 1 /\ dailyStats[1].totalVideos = 1
    /\ sourceLog["t1"] = {"completed"}

\* The reconciliation steps of a result without success: status and error
\* written, then failedTasks + 1, then reportTask; `isTimeout` says
\* whether the status written is `timeout`.
FailureSteps(i, isTimeout) ==
    LET r == inv[i].result
        t == inv[i].taskId
    IN  /\ inv[i].hpc = "update" =>
             \/ inv'[i].hpc = "done" /\ sourceLog' = sourceLog /\ dailyStats' = dailyStats
             \/ /\ inv'[i].hpc = "stats"
                /\ RecordOf(t)'.status = (IF isTimeout THEN "timeout" ELSE "failed")
                /\ RecordOf(t)'.error = r.error
                /\ sourceLog' = sourceLog /\ dailyStats' = dailyStats
        /\ inv[i].hpc = "stats" =>
             \/ inv'[i].hpc = "done" /\ sourceLog' = sourceLog /\ dailyStats' = dailyStats
             \/ /\ inv'[i].hpc = "source"
                /\ StatsNow'.failedTasks = StatsNow.failedTasks + 1
                /\ StatsNow'.completedTasks = StatsNow.completedTasks
                /\ StatsNow'.totalVideos = StatsNow.totalVideos
                /\ sourceLog' = sourceLog
        /\ inv[i].hpc = "source" =>
             /\ inv'[i].hpc = "done"
             /\ sourceLog' \in {SourceTold(sourceLog, t, "reported", d) : d \in BOOLEAN}
             /\ dailyStats' = dailyStats

FailureHandled(i) ==
    /\ inv[i].state = "resolved" /\ ~Succeeded(inv[i].result)
    /\ inv[i].hpc \in {"update", "stats", "source"} /\ inv'[i] # inv[i]

\* C14 as stated: for a result without success the task gets status timeout
\* exactly when the error message contains "timeout", and failed otherwise;
\* the error is stored, failedTasks is incremented and reportTask is called.
C14_TimeoutIffLowerCase ==
    [][\A i \in InvIds :
          FailureHandled(i) => FailureSteps(i, Includes(inv[i].result.error, "timeout"))]_vars

\* C14 amended: the status is timeout exactly when the error message
\* contains "timeout" or "Timeout"; the rest as stated.
C14_FailureReconciled ==
    [][\A i \in InvIds :
          FailureHandled(i)
          => FailureSteps(i, \/ Includes(inv[i].result.error, "timeout")
                             \/ Includes(inv[i].result.error, "Timeout"))]_vars

C14_Witness ==
    /\ \E i \in InvIds : inv[i] = DoneInv
    /\ StatusOf(tasksCollection, "t1") = "timeout"
    /\ RecordOf("t1").error = "Timeout 30000ms exceeded"
    /\ dailyStats # <<>> /\ dailyStats[1].failedTasks = 1 /\ dailyStats[1].totalTasks = 1
    /\ sourceLog["t1"] = {"reported"}

\* C15: when the reconciliation of a result without success returns, the
\* task's record has status failed or timeout and the task source has been
\* told through reportTask, also when a store or source call failed on the way.
\* The return is the last thing the orchestrator does for the result.
C15_FailureLeavesTaskFailedAndReported ==
    [][\A i \in InvIds :
          (FailureHandled(i) /\ inv'[i].hpc = "done")
          => /\ StatusOf(tasksCollection', inv[i].taskId) \in {"failed", "timeout"}
             /\ "reported" \in sourceLog'[inv[i].taskId]]_vars

tickVars == <<tickPc, tickProfile, tickTask>>

\* C16: startWorker returns, and the tick with it, while the worker it started
\* is still running; a step of a worker's continuation never moves the poll
\* loop and a step of the poll loop never moves a started invocation; a
\* running worker's completion can be taken up wherever the poll loop stands.
C16_PollLoopNeverWaits ==
    /\ [][tickPc = "start" /\ tickVars' # tickVars
            => /\ tickPc' = "sleep"
               /\ \E i \in InvIds :
                     /\ inv[i].state = "unused" /\ inv'[i].state = "running"
                     /\ activeWorkers'[inv'[i].taskId] = i]_vars
    /\ [][\A i \in InvIds :
             (inv[i].state # "unused" /\ inv'[i] # inv[i]) => tickVars' = tickVars]_vars
    /\ [][tickVars' # tickVars
            => \A i \in InvIds : inv[i].state # "unused" => inv'[i] = inv[i]]_vars
    /\ [](\A i \in InvIds : inv[i].state = "running" => ENABLED WorkerResolve(i))

\* A later tick is under way and a continuation is under way while an
\* earlier worker is still running.
C16_Witness ==
    /\ tickPc = "save"
    /\ \E i, j \in InvIds :
          /\ inv[i].state = "running"
          /\ inv[j].state = "resolved" /\ inv[j].hpc = "stats"

\* C17: within a tick the task is claimed, then saveTask has stored a record
\* for it, then updateTaskStatus has set the record to processing with the
\* selected profile's name, and only then is the worker started; a worker is
\* started only for a task id that has a record in the store.
C17_ClaimPersistStart ==
    /\ [][tickPc' = "save" /\ tickPc # "save"
            => /\ tickPc = "claim"
               /\ claimCalls' = claimCalls + 1
               /\ tickTask'.id \in TaskIds]_vars
    /\ [][tickPc' = "update" /\ tickPc # "update"
            => /\ tickPc = "save"
               /\ tickTask' = tickTask
               /\ RecordsOf(tickTask.id)' # {}]_vars
    /\ [][tickPc' = "start" /\ tickPc # "start"
            => /\ tickPc = "update"
               /\ tickTask' = tickTask
               /\ RecordsOf(tickTask.id) # {}
               /\ RecordOf(tickTask.id)'.status = "processing"
               /\ RecordOf(tickTask.id)'.profileName = tickProfile]_vars
    /\ [][\A i \in InvIds :
             (inv[i].state = "unused" /\ inv'[i].state = "running")
             => /\ tickPc = "start"
                /\ inv'[i].taskId = tickTask.id
                /\ inv'[i].profile = tickProfile
                /\ RecordsOf(tickTask.id) # {}]_vars

C17_Witness ==
    /\ claimCalls = 1
    /\ \E i \in InvIds :
          /\ inv[i].state = "running" /\ inv[i].taskId = "t1"
          /\ RecordsOf("t1") # {}
          /\ RecordOf("t1").status = "processing"
          /\ RecordOf("t1").profileName = inv[i].profile

Reconciling == {i \in InvIds : inv[i].hpc \in {"update", "stats", "source"}}

\* C18: no worker's result is dropped without being reconciled, and no two
\* reconciliations for the same task id are under way at the same time.
C18_ReconciledExactlyOnce ==
    /\ \A i \in InvIds : inv[i].hpc # "dropped"
    /\ \A i, j \in Reconciling : inv[i].taskId = inv[j].taskId => i = j

\* C19: once shutdown has been requested (isShuttingDown is set) no task is
\* claimed from the task source and no worker is started, also not by a tick
\* that was under way when the signal arrived.
C19_NoClaimNoStartAfterShutdown ==
    [][isShuttingDown
         => /\ claimCalls' = claimCalls
            /\ \A i \in InvIds : inv[i].state = "unused" => inv'[i].state = "unused"]_vars

\* C20: a connection is released, and the process exits, only when every
\* worker that was in the map when shutdown was requested has resolved and its
\* reconciliation has returned, however many signals arrive.
C20_ReleaseAndExitAfterReconciled ==
    (exited \/ connected # {"accountSelector", "taskStore"})
        => \A i \in shutAwaits : i \notin Running /\ i \notin Reconciling

LoopPositions == {"sleep", "select", "stamp", "claim", "save", "update", "start"}

\* C21: a tick that ends without having gone through its next call (a store
\* call threw) ends in the loop's sleep, with the map of active workers and
\* every started invocation untouched; the loop never leaves its positions,
\* and from the sleep the next tick can run.
C21_TickErrorCaught ==
    /\ [][(tickPc \in {"stamp", "save", "update"} /\ tickPc' \notin {tickPc, "claim", "update", "start"})
            => /\ tickPc' = "sleep"
               /\ activeWorkers' = activeWorkers
               /\ inv' = inv]_vars
    /\ [](tickPc \in LoopPositions)
    /\ []((tickPc = "sleep" /\ clock < MaxClock) => ENABLED (TickBegin \/ TickSaturated))

\* A tick failed at saveTask while a worker was running; the worker is still
\* in the map and the loop is back at its sleep.
C21_Witness ==
    /\ tickPc = "sleep"
    /\ claimCalls = 2
    /\ tasksCollection # <<>> /\ RecordsOf("t2") = {}
    /\ \E i \in InvIds : inv[i].state = "running" /\ activeWorkers[inv[i].taskId] = i
    /\ \A i \in InvIds : inv[i].taskId # "t2"

\* C32: while the poll loop stands before a tick and the active-worker count
\* is at or above MAX_CONCURRENT_WORKERS, no step is a step of the tick: no
\* profile is selected or stamped, no task is claimed, and the task store and
\* the active-worker map change only by steps of worker invocations.
C32_SaturatedTickIsNoOp ==
    [][tickPc = "sleep" /\ ActiveCount >= MAX_CONCURRENT_WORKERS
         => /\ tickVars' = tickVars
            /\ profiles' = profiles
            /\ selVars' = selVars
            /\ claimCalls' = claimCalls
            /\ sourceLog' # sourceLog \/ tasksCollection' # tasksCollection
                  \/ activeWorkers' # activeWorkers
                  => /\ inv' # inv
                     /\ Len(tasksCollection') = Len(tasksCollection)
                     /\ \A t \in TaskIds : activeWorkers'[t] \in {activeWorkers[t], 0}]_vars

\* The map is full while the loop is before a tick that could otherwise
\* select and claim: the clock and the task source allow another tick.
C32_Witness ==
    /\ tickPc = "sleep"
    /\ ActiveCount = MAX_CONCURRENT_WORKERS
    /\ claimCalls < MaxClaims /\ clock < MaxClock
    /\ ENABLED TickSaturated

\* C33: the step in which a worker's promise resolves leaves no entry for
\* its task id in the active-worker map and makes no task-store or
\* task-source call; an invocation that has resolved is never in the map, so
\* no step of its reconciliation, a failing one included, finds or puts back
\* its entry.
C33_EntryRemovedBeforeReconciliation ==
    /\ [](\A i \in InvIds : inv[i].state # "running"
                               => \A t \in TaskIds : activeWorkers[t] # i)
    /\ [][\A i \in InvIds :
            inv[i].state = "running" /\ inv'[i].state # "running"
            => /\ activeWorkers'[inv[i].taskId] = 0
               /\ tasksCollection' = tasksCollection
               /\ dailyStats' = dailyStats
               /\ sourceLog' = sourceLog]_vars
    /\ [][\A i \in Reconciling : inv'[i] # inv[i] => activeWorkers' = activeWorkers]_vars

\* The only worker's reconciliation failed at its first store call: the
\* record still says processing, the handler is done and the map is empty.
C33_Witness ==
    /\ \E i \in InvIds : inv[i] = DoneInv /\ \A j \in InvIds \ {i} : inv[j] = NoInv
    /\ RecordsOf("t1") # {} /\ RecordOf("t1").status = "processing"
    /\ \A t \in TaskIds : activeWorkers[t] = 0
    /\ tickPc = "sleep"

\* C35: no two workers that are running at the same time use the same profile.
C35_RunningWorkersUseDistinctProfiles ==
    \A i, j \in Running : inv[i].profile = inv[j].profile => i = j

\* C36: the size of the active-worker map equals the number of worker
\* invocations that have been started and have not yet resolved.
C36_MapSizeIsRunningCount ==
    ActiveCount = Cardinality(Running)

\* C37: every entry put into the active-worker map is eventually removed,
\* and a saturated map eventually has a free slot.
C37_EntryEventuallyRemoved ==
    /\ \A t \in TaskIds, i \in InvIds :
          (activeWorkers[t] = i) ~> (activeWorkers[t] # i)
    /\ (ActiveCount >= MAX_CONCURRENT_WORKERS) ~> (ActiveCount < MAX_CONCURRENT_WORKERS)

\* The map was saturated by two started workers and has been emptied again.
C37_Witness ==
    /\ \A t \in TaskIds : activeWorkers[t] = 0
    /\ Cardinality({i \in InvIds : inv[i].state = "resolved"}) >= MAX_CONCURRENT_WORKERS
    /\ Running = {}

\* C38: a tick that ends after claimTask returned a task has either started
\* a worker for that task or reported the task back to the task source; no
\* claimed task is left without a worker and without a report.
C38_ClaimedTaskRunOrReported ==
    [][(tickPc \in {"save", "update", "start"} /\ tickPc' = "sleep")
         => \/ \E i \in InvIds :
                  /\ inv[i].state = "unused"
                  /\ inv'[i].state = "running"
                  /\ inv'[i].taskId = tickTask.id
            \/ sourceLog'[tickTask.id] # sourceLog[tickTask.id]]_vars

Rank(status) ==
    CASE status = "claimed" -> 1
      [] status = "processing" -> 2
      [] status \in {"completed", "failed", "timeout"} -> 3
      [] OTHER -> 0

\* C6: a stored task status is never replaced by an earlier one in the
\* order claimed < processing < {completed, failed, timeout}.
C6_StatusMonotonic ==
    [][\A id \in TaskIds :
          StatusOf(tasksCollection, id) # None
          => Rank(StatusOf(tasksCollection', id)) >= Rank(StatusOf(tasksCollection, id))]_vars

====
